---- MODULE Spec2Model ----
(***************************************************************************)
(* Model of the OTLP/HTTP -> gRPC trace proxy of go-odj (otel_proxy.go).   *)
(*                                                                         *)
(* Text is a sequence of one-character strings, bytes are 0..255.  A JSON  *)
(* document is a tree of tagged nodes:                                     *)
(*   [t |-> "obj", m |-> [key -> node]]   [t |-> "arr", a |-> <<node>>]    *)
(*   [t |-> "str", s |-> text]            [t |-> "num", n |-> number]      *)
(*   [t |-> "null"]                                                        *)
(* A number is [hi |-> h, lo |-> l], standing for h * 2^27 + l, so that    *)
(* values around 2^53 (the float64 mantissa) are exact in the model.       *)
(***************************************************************************)
EXTENDS Integers, Sequences, FiniteSets, TLC

(***************************************************************************)
(* encoding/hex                                                            *)
(***************************************************************************)
hexLower == <<"0","1","2","3","4","5","6","7","8","9","a","b","c","d","e","f">>
hexUpper == <<"0","1","2","3","4","5","6","7","8","9","A","B","C","D","E","F">>

IsHexChar(c) == \E i \in 1..16 : hexLower[i] = c \/ hexUpper[i] = c

fromHexChar(c) == (CHOOSE i \in 1..16 : hexLower[i] = c \/ hexUpper[i] = c) - 1

\* a decoder that knows only lower-case digits
hexDecodeLowerOnly(s) ==
    IF Len(s) % 2 # 0 \/ (\E i \in 1..Len(s) : \A j \in 1..16 : hexLower[j] # s[i])
    THEN [ok |-> FALSE, bytes |-> <<>>]
    ELSE [ok |-> TRUE,
          bytes |-> [i \in 1..(Len(s) \div 2) |->
                       16 * fromHexChar(s[2*i - 1]) + fromHexChar(s[2*i])]]

\* hex.DecodeString: fails on odd length or on any non-hex character,
\* accepts both letter cases.
hexDecodeString(s) ==
    IF Len(s) % 2 # 0 \/ (\E i \in 1..Len(s) : ~IsHexChar(s[i]))
    THEN [ok |-> FALSE, bytes |-> <<>>]
    ELSE [ok |-> TRUE,
          bytes |-> [i \in 1..(Len(s) \div 2) |->
                       16 * fromHexChar(s[2*i - 1]) + fromHexChar(s[2*i])]]

(***************************************************************************)
(* encoding/base64                                                         *)
(***************************************************************************)
encodeStd ==
    <<"A","B","C","D","E","F","G","H","I","J","K","L","M","N","O","P",
      "Q","R","S","T","U","V","W","X","Y","Z","a","b","c","d","e","f",
      "g","h","i","j","k","l","m","n","o","p","q","r","s","t","u","v",
      "w","x","y","z","0","1","2","3","4","5","6","7","8","9","+","/">>

encodeURL == [i \in 1..64 |-> IF i = 63 THEN "-" ELSE IF i = 64 THEN "_" ELSE encodeStd[i]]

InAlphabet(alpha, c) == \E i \in 1..64 : alpha[i] = c

b64Index(alpha, c) == (CHOOSE i \in 1..64 : alpha[i] = c) - 1

RECURSIVE base64EncodeToString(_)
\* base64.StdEncoding.EncodeToString: 3 bytes -> 4 characters, "=" padding.
base64EncodeToString(b) ==
    IF Len(b) = 0 THEN <<>>
    ELSE IF Len(b) = 1 THEN
        << encodeStd[(b[1] \div 4) + 1], encodeStd[((b[1] % 4) * 16) + 1], "=", "=" >>
    ELSE IF Len(b) = 2 THEN
        << encodeStd[(b[1] \div 4) + 1],
           encodeStd[((b[1] % 4) * 16 + (b[2] \div 16)) + 1],
           encodeStd[((b[2] % 16) * 4) + 1], "=" >>
    ELSE
        << encodeStd[(b[1] \div 4) + 1],
           encodeStd[((b[1] % 4) * 16 + (b[2] \div 16)) + 1],
           encodeStd[((b[2] % 16) * 4 + (b[3] \div 64)) + 1],
           encodeStd[(b[3] % 64) + 1] >>
        \o base64EncodeToString(SubSeq(b, 4, Len(b)))

RECURSIVE base64DecodeQuanta(_, _)
\* the bytes of a run of alphabet characters whose length is not 1 mod 4;
\* trailing bits of a short last quantum are dropped (non-strict decoding).
base64DecodeQuanta(alpha, s) ==
    IF Len(s) < 2 THEN <<>>
    ELSE LET v(i) == b64Index(alpha, s[i]) IN
         IF Len(s) = 2 THEN << v(1) * 4 + (v(2) \div 16) >>
         ELSE IF Len(s) = 3 THEN
             << v(1) * 4 + (v(2) \div 16), (v(2) % 16) * 16 + (v(3) \div 4) >>
         ELSE
             << v(1) * 4 + (v(2) \div 16),
                (v(2) % 16) * 16 + (v(3) \div 4),
                (v(3) % 4) * 64 + v(4) >>
             \o base64DecodeQuanta(alpha, SubSeq(s, 5, Len(s)))

\* Encoding.DecodeString for an alphabet, with or without "=" padding.
base64DecodeString(alpha, padded, s) ==
    LET n    == Len(s)
        pad  == IF ~padded THEN 0
                ELSE IF n >= 2 /\ s[n] = "=" /\ s[n-1] = "=" THEN 2
                ELSE IF n >= 1 /\ s[n] = "=" THEN 1
                ELSE 0
        core == SubSeq(s, 1, n - pad)
        good == /\ \A i \in 1..Len(core) : InAlphabet(alpha, core[i])
                /\ IF padded THEN n % 4 = 0 ELSE n % 4 # 1
    IN IF good THEN [ok |-> TRUE, bytes |-> base64DecodeQuanta(alpha, core)]
       ELSE [ok |-> FALSE, bytes |-> <<>>]

\* protojson's decoding of a bytes field: URL alphabet when the text has
\* "-" or "_", unpadded when the length is not a multiple of four.
protojsonUnmarshalBytes(s) ==
    LET alpha == IF \E i \in 1..Len(s) : s[i] \in {"-", "_"} THEN encodeURL ELSE encodeStd
    IN base64DecodeString(alpha, Len(s) % 4 = 0, s)

(***************************************************************************)
(* The Identifier Normalizer                                               *)
(***************************************************************************)
ReservedKeys == {"traceId", "spanId", "parentSpanId"}

Str(s) == [t |-> "str", s |-> s]
Obj(m) == [t |-> "obj", m |-> m]
Arr(a) == [t |-> "arr", a |-> a]
Null   == [t |-> "null"]

\* the decoding error is ignored and whatever was decoded is stored
rewriteIdIgnoreErr(val) ==
    IF val.t = "str"
    THEN Str(base64EncodeToString(hexDecodeString(val.s).bytes))
    ELSE val

\* the value stored back under a reserved key (otel_proxy.go:205-212)
rewriteId(val) ==
    IF val.t = "str"
    THEN LET decoded == hexDecodeString(val.s)
         IN IF decoded.ok THEN Str(base64EncodeToString(decoded.bytes)) ELSE val
    ELSE val

RECURSIVE transformSkipArrays(_)
\* the []any case is missing
transformSkipArrays(data) ==
    IF data.t = "obj" THEN
        Obj([key \in DOMAIN data.m |->
                IF key \in ReservedKeys
                THEN rewriteId(data.m[key])
                ELSE transformSkipArrays(data.m[key])])
    ELSE data

RECURSIVE transformUnconditional(_)
\* the recursion also enters what a reserved key holds
transformUnconditional(data) ==
    IF data.t = "obj" THEN
        Obj([key \in DOMAIN data.m |->
                IF key \in ReservedKeys /\ data.m[key].t = "str"
                THEN rewriteId(data.m[key])
                ELSE transformUnconditional(data.m[key])])
    ELSE IF data.t = "arr" THEN
        Arr([i \in DOMAIN data.a |-> transformUnconditional(data.a[i])])
    ELSE data

RECURSIVE transformHexIdsToBase64(_)
\* The Go function mutates the tree in place; the operator returns the tree
\* as it is once the call has returned.
transformHexIdsToBase64(data) ==
    IF data.t = "obj" THEN
        Obj([key \in DOMAIN data.m |->
                IF key \in ReservedKeys
                THEN rewriteId(data.m[key])
                ELSE transformHexIdsToBase64(data.m[key])])
    ELSE IF data.t = "arr" THEN
        Arr([i \in DOMAIN data.a |-> transformHexIdsToBase64(data.a[i])])
    ELSE data

(***************************************************************************)
(* Numbers: JSON number literals, Go float64 values, 64-bit fields         *)
(***************************************************************************)
Radix == 2^27

Num(h, l) == [hi |-> h, lo |-> l]

Zero == Num(0, 0)

\* Whether n is at most 2^53, where every integer is a float64.
IsExactFloat(n) == n.hi < 2^26 \/ (n.hi = 2^26 /\ n.lo = 0)

\* An integer literal below 2^54 read into a float64 by json.Unmarshal
\* (round to nearest, ties to the even mantissa) and printed again by
\* json.Marshal ('f' format, shortest digits that read back the same).
float64(n) ==
    IF IsExactFloat(n) THEN n
    ELSE IF n.lo % 4 = 1 THEN Num(n.hi, n.lo - 1)
    ELSE IF n.lo % 4 = 3 THEN
        (IF n.lo + 1 = Radix THEN Num(n.hi + 1, 0) ELSE Num(n.hi, n.lo + 1))
    ELSE n

IsDigit(c) == \E i \in 1..10 : hexLower[i] = c

RECURSIVE parseUintFrom(_, _)
parseUintFrom(s, acc) ==
    IF s = <<>> THEN acc
    ELSE LET t == acc.lo * 10 + fromHexChar(Head(s))
         IN parseUintFrom(Tail(s), Num(acc.hi * 10 + (t \div Radix), t % Radix))

\* strconv.ParseUint on the text of a quoted 64-bit integer
parseUint(s) ==
    IF s = <<>> \/ (\E i \in 1..Len(s) : ~IsDigit(s[i])) THEN [ok |-> FALSE]
    ELSE [ok |-> TRUE, v |-> parseUintFrom(s, Zero)]

(***************************************************************************)
(* encoding/json on the generic tree (map[string]any)                      *)
(*                                                                         *)
(* A request or response body is                                           *)
(*   [k |-> "json", doc |-> node]   well-formed JSON text                  *)
(*   [k |-> "badjson"]              truncated / invalid JSON text          *)
(*   [k |-> "wire", fields |-> <<field>>, corrupt |-> BOOLEAN]             *)
(*                                  binary protobuf, possibly cut short    *)
(*   [k |-> "unreadable"]           the body stream fails while being read *)
(* A Go value of the generic tree differs from a document in its numbers,  *)
(* which are float64: [t |-> "float", n |-> number].                       *)
(***************************************************************************)
RECURSIVE jsonToAny(_)
jsonToAny(node) ==
    IF node.t = "obj" THEN Obj([key \in DOMAIN node.m |-> jsonToAny(node.m[key])])
    ELSE IF node.t = "arr" THEN Arr([i \in DOMAIN node.a |-> jsonToAny(node.a[i])])
    ELSE IF node.t = "num" THEN [t |-> "float", n |-> float64(node.n)]
    ELSE node

\* json.Unmarshal(body, &genericPayload) with genericPayload a map[string]any:
\* the text must be JSON and its top level an object or null (a nil map).
jsonUnmarshal(body) ==
    IF body.k = "json" /\ body.doc.t \in {"obj", "null"}
    THEN [ok |-> TRUE, v |-> jsonToAny(body.doc)]
    ELSE [ok |-> FALSE]

RECURSIVE jsonMarshal(_)
\* json.Marshal(genericPayload): never fails on a tree json.Unmarshal built.
jsonMarshal(v) ==
    IF v.t = "obj" THEN Obj([key \in DOMAIN v.m |-> jsonMarshal(v.m[key])])
    ELSE IF v.t = "arr" THEN Arr([i \in DOMAIN v.a |-> jsonMarshal(v.a[i])])
    ELSE IF v.t = "float" THEN [t |-> "num", n |-> v.n]
    ELSE v

(***************************************************************************)
(* The trace-export schema and protojson.Unmarshal                         *)
(*                                                                         *)
(* ExportTraceServiceRequest  [resourceSpans |-> <<ResourceSpans>>]        *)
(* ResourceSpans   [resource |-> NoResource or Resource(attrs),            *)
(*                  scopeSpans |-> <<ScopeSpans>>]                         *)
(* ScopeSpans      [spans |-> <<Span>>]                                    *)
(* Span            [traceId, spanId, parentSpanId |-> bytes, name |-> text,*)
(*                  startTimeUnixNano |-> number]                          *)
(* KeyValue        [key |-> text, value |-> text]  (string-valued)         *)
(***************************************************************************)
NoResource == [nil |-> TRUE]

Resource(attrs) == [nil |-> FALSE, attributes |-> attrs]

Ok(v) == [ok |-> TRUE, v |-> v]

Fail == [ok |-> FALSE]

\* the value of field k of a JSON object, null when the key is missing
Field(node, k) == IF k \in DOMAIN node.m THEN node.m[k] ELSE Null

\* unknown fields are an error (DiscardUnknown is off)
HasOnly(node, allowed) == node.t = "obj" /\ DOMAIN node.m \subseteq allowed

pjBytes(node) ==
    IF node.t = "null" THEN Ok(<<>>)
    ELSE IF node.t = "str" THEN
        LET d == protojsonUnmarshalBytes(node.s)
        IN IF d.ok THEN Ok(d.bytes) ELSE Fail
    ELSE Fail

pjString(node) ==
    IF node.t = "null" THEN Ok(<<>>)
    ELSE IF node.t = "str" THEN Ok(node.s)
    ELSE Fail

\* a fixed64 field is read from a number or from a quoted decimal
pjFixed64(node) ==
    IF node.t = "null" THEN Ok(Zero)
    ELSE IF node.t = "num" THEN Ok(node.n)
    ELSE IF node.t = "str" THEN parseUint(node.s)
    ELSE Fail

\* a repeated field is read from an array; null stands for the empty list
IsList(node) == node.t \in {"null", "arr"}

elements(node) == IF node.t = "arr" THEN node.a ELSE <<>>

\* the list of the decoded elements, unless one of them failed
pjCollect(each) ==
    IF \A i \in DOMAIN each : each[i].ok
    THEN Ok([i \in DOMAIN each |-> each[i].v]) ELSE Fail

pjSpan(node) ==
    IF ~HasOnly(node, {"traceId", "spanId", "parentSpanId", "name", "startTimeUnixNano"})
    THEN Fail
    ELSE LET tid  == pjBytes(Field(node, "traceId"))
             sid  == pjBytes(Field(node, "spanId"))
             pid  == pjBytes(Field(node, "parentSpanId"))
             nm   == pjString(Field(node, "name"))
             st   == pjFixed64(Field(node, "startTimeUnixNano"))
         IN IF tid.ok /\ sid.ok /\ pid.ok /\ nm.ok /\ st.ok
            THEN Ok([traceId |-> tid.v, spanId |-> sid.v, parentSpanId |-> pid.v,
                     name |-> nm.v, startTimeUnixNano |-> st.v])
            ELSE Fail

pjScopeSpans(node) ==
    IF ~HasOnly(node, {"spans"}) THEN Fail
    ELSE LET list == Field(node, "spans")
             sp   == IF IsList(list)
                     THEN pjCollect([i \in DOMAIN elements(list) |-> pjSpan(elements(list)[i])])
                     ELSE Fail
         IN IF sp.ok THEN Ok([spans |-> sp.v]) ELSE Fail

pjAnyValue(node) ==
    IF ~HasOnly(node, {"stringValue"}) THEN Fail
    ELSE pjString(Field(node, "stringValue"))

pjKeyValue(node) ==
    IF ~HasOnly(node, {"key", "value"}) THEN Fail
    ELSE LET k == pjString(Field(node, "key"))
             v == IF Field(node, "value").t = "null" THEN Ok(<<>>)
                  ELSE pjAnyValue(Field(node, "value"))
         IN IF k.ok /\ v.ok THEN Ok([key |-> k.v, value |-> v.v]) ELSE Fail

pjResource(node) ==
    IF node.t = "null" THEN Ok(NoResource)
    ELSE IF ~HasOnly(node, {"attributes"}) THEN Fail
    ELSE LET list == Field(node, "attributes")
             at   == IF IsList(list)
                     THEN pjCollect([i \in DOMAIN elements(list) |->
                                       pjKeyValue(elements(list)[i])])
                     ELSE Fail
         IN IF at.ok THEN Ok(Resource(at.v)) ELSE Fail

pjResourceSpans(node) ==
    IF ~HasOnly(node, {"resource", "scopeSpans"}) THEN Fail
    ELSE LET rs == pjResource(Field(node, "resource"))
             list == Field(node, "scopeSpans")
             ss == IF IsList(list)
                   THEN pjCollect([i \in DOMAIN elements(list) |->
                                     pjScopeSpans(elements(list)[i])])
                   ELSE Fail
         IN IF rs.ok /\ ss.ok THEN Ok([resource |-> rs.v, scopeSpans |-> ss.v])
            ELSE Fail

\* protojson.Unmarshal(correctedBody, &req)
protojsonUnmarshal(doc) ==
    IF ~HasOnly(doc, {"resourceSpans"}) THEN Fail
    ELSE LET list == Field(doc, "resourceSpans")
             rs   == IF IsList(list)
                     THEN pjCollect([i \in DOMAIN elements(list) |->
                                       pjResourceSpans(elements(list)[i])])
                     ELSE Fail
         IN IF rs.ok THEN Ok([resourceSpans |-> rs.v]) ELSE Fail

(***************************************************************************)
(* Binary protobuf (gogo proto.Unmarshal / proto.Marshal)                  *)
(*                                                                         *)
(* A message on the wire is a sequence of fields [num |-> field number,    *)
(* val |-> payload]; the payload of a message field is again a sequence of *)
(* fields.  Field numbers are those of the OTLP trace schema.              *)
(***************************************************************************)
wireVals(fields, n) ==
    LET sel == SelectSeq(fields, LAMBDA f : f.num = n)
    IN [i \in DOMAIN sel |-> sel[i].val]

\* a singular field: the last occurrence wins, the default when absent
wireLast(fields, n, dflt) ==
    LET vals == wireVals(fields, n)
    IN IF vals = <<>> THEN dflt ELSE vals[Len(vals)]

pbSpan(fields) ==
    [traceId |-> wireLast(fields, 1, <<>>),
     spanId |-> wireLast(fields, 2, <<>>),
     parentSpanId |-> wireLast(fields, 4, <<>>),
     name |-> wireLast(fields, 5, <<>>),
     startTimeUnixNano |-> wireLast(fields, 7, Zero)]

pbScopeSpans(fields) ==
    [spans |-> [i \in DOMAIN wireVals(fields, 2) |-> pbSpan(wireVals(fields, 2)[i])]]

pbKeyValue(fields) ==
    [key |-> wireLast(fields, 1, <<>>),
     value |-> wireLast(wireLast(fields, 2, <<>>), 1, <<>>)]

pbResource(fields) ==
    Resource([i \in DOMAIN wireVals(fields, 1) |-> pbKeyValue(wireVals(fields, 1)[i])])

pbResourceSpans(fields) ==
    [resource |-> IF wireVals(fields, 1) = <<>> THEN NoResource
                  ELSE pbResource(wireLast(fields, 1, <<>>)),
     scopeSpans |-> [i \in DOMAIN wireVals(fields, 2) |->
                        pbScopeSpans(wireVals(fields, 2)[i])]]

\* proto.Unmarshal(body, &req): an empty body is the empty request; JSON
\* text and cut-short input do not parse as a message.
protoUnmarshal(body) ==
    IF body.k = "wire" /\ ~body.corrupt
    THEN Ok([resourceSpans |-> [i \in DOMAIN wireVals(body.fields, 1) |->
                                   pbResourceSpans(wireVals(body.fields, 1)[i])]])
    ELSE Fail

(***************************************************************************)
(* The Attribute Enforcer                                                  *)
(***************************************************************************)
Max(S) == CHOOSE x \in S : \A y \in S : y <= x

\* first loop of upsertAttribute: every existing attribute whose key is an
\* upsert key takes that upsert's value (the last one, if several match)
upsertReplace(attrs, upsert) ==
    [i \in DOMAIN attrs |->
        LET m == {j \in DOMAIN upsert : upsert[j].key = attrs[i].key}
        IN IF m = {} THEN attrs[i]
           ELSE [attrs[i] EXCEPT !.value = upsert[Max(m)].value]]

RECURSIVE upsertAppend(_, _)
\* second loop: an upsert whose key is not found in attrs (as grown so far)
\* is appended
upsertAppend(attrs, upsert) ==
    IF upsert = <<>> THEN attrs
    ELSE upsertAppend(
            IF \E i \in DOMAIN attrs : attrs[i].key = Head(upsert).key
            THEN attrs ELSE Append(attrs, Head(upsert)),
            Tail(upsert))

\* the missing upserts are put in front of the existing attributes
upsertAttributePrepend(attrs, upsert) ==
    SubSeq(upsertAppend(upsertReplace(attrs, upsert), upsert),
           Len(attrs) + 1, Len(upsertAppend(upsertReplace(attrs, upsert), upsert)))
    \o upsertReplace(attrs, upsert)

upsertAttribute(attrs, upsert) == upsertAppend(upsertReplace(attrs, upsert), upsert)

\* a resource span without a resource is given one
overrideFabricateResource(req, attributes) ==
    [req EXCEPT !.resourceSpans =
        [i \in DOMAIN req.resourceSpans |->
            [req.resourceSpans[i] EXCEPT !.resource =
                Resource(upsertAttribute(
                    IF req.resourceSpans[i].resource.nil THEN <<>>
                    ELSE req.resourceSpans[i].resource.attributes, attributes))]]]

overrideResourceAttributes(req, attributes) ==
    [req EXCEPT !.resourceSpans =
        [i \in DOMAIN req.resourceSpans |->
            LET rs == req.resourceSpans[i]
            IN IF rs.resource.nil THEN rs
               ELSE [rs EXCEPT !.resource.attributes =
                        upsertAttribute(rs.resource.attributes, attributes)]]]

(***************************************************************************)
(* Configuration set by NewOtelTraceProxy                                  *)
(***************************************************************************)
\* the override attribute set, for Component "unknown", FullVersion "dev",
\* stage local and source component "svc"
proxyAttributes ==
    << [key |-> <<"o","t","e","l","_","p","r","o","x","y",".","s","e","r","v","i","c","e",".","n","a","m","e">>, value |-> <<"u","n","k","n","o","w","n">>],
       [key |-> <<"o","t","e","l","_","p","r","o","x","y",".","s","e","r","v","i","c","e",".","v","e","r","s","i","o","n">>, value |-> <<"d","e","v">>],
       [key |-> <<"o","t","e","l","_","p","r","o","x","y",".","d","e","p","l","o","y","m","e","n","t",".","e","n","v","i","r","o","n","m","e","n","t">>, value |-> <<"l","o","c","a","l">>],
       [key |-> <<"s","e","r","v","i","c","e",".","n","a","m","e">>, value |-> <<"s","v","c">>],
       [key |-> <<"d","e","p","l","o","y","m","e","n","t",".","e","n","v","i","r","o","n","m","e","n","t",".","n","a","m","e">>, value |-> <<"l","o","c","a","l">>] >>

\* DeploymentStage values are text; the empty text is the local stage
StageLocal == <<>>

\* DeploymentStage.String
StageString(stage) == IF stage = <<>> THEN <<"l","o","c","a","l">> ELSE stage

\* the package's Component and FullVersion with no build variables set
Component == <<"u","n","k","n","o","w","n">>

FullVersion == <<"d","e","v">>

\* the password is not looked at
argsErrorNoPass(endpoint, user, pass) ==
    IF endpoint = "" THEN "otel trace endpoint is required"
    ELSE IF user = "" THEN "otel trace user is required"
    ELSE ""

\* the three checks NewOtelTraceProxy starts with, "" when all pass
argsError(endpoint, user, pass) ==
    IF endpoint = "" THEN "otel trace endpoint is required"
    ELSE IF user = "" THEN "otel trace user is required"
    ELSE IF pass = "" THEN "otel trace password is required"
    ELSE ""

\* otelAuth: the token and RequireTransportSecurity
otelAuth(user, pass) ==
    [scheme |-> "Basic", user |-> user, pass |-> pass, requireTransportSecurity |-> FALSE]

\* every stage dials without TLS
dialOptionsInsecure(stage, user, pass) ==
    << [option |-> "WithTransportCredentials", creds |-> "insecure"],
       [option |-> "WithPerRPCCredentials", creds |-> otelAuth(user, pass)] >>

\* the dial options (otel_proxy.go:45-53)
dialOptions(stage, user, pass) ==
    << [option |-> "WithTransportCredentials",
        creds |-> IF stage = StageLocal THEN "insecure" ELSE "tls"],
       [option |-> "WithPerRPCCredentials", creds |-> otelAuth(user, pass)] >>

NoConn == [nil |-> TRUE]

\* the connection grpc.NewClient builds from the options
newClient(endpoint, options) ==
    [nil |-> FALSE, target |-> endpoint,
     transport |-> (CHOOSE o \in {options[i] : i \in DOMAIN options} :
                       o.option = "WithTransportCredentials").creds,
     perRPC |-> (CHOOSE o \in {options[i] : i \in DOMAIN options} :
                       o.option = "WithPerRPCCredentials").creds]

\* the override attribute set (otel_proxy.go:61-82)
newAttributes(srcComponent, stage) ==
    << [key |-> proxyAttributes[1].key, value |-> Component],
       [key |-> proxyAttributes[2].key, value |-> FullVersion],
       [key |-> proxyAttributes[3].key, value |-> StageString(stage)],
       [key |-> proxyAttributes[4].key, value |-> srcComponent],
       [key |-> proxyAttributes[5].key, value |-> StageString(stage)] >>

NoReturn == [returned |-> FALSE]

Stages ==
    { StageLocal, <<"l","o","c","a","l">>, <<"t","e","s","t">>, <<"d","e","v">>,
      <<"q","a">>, <<"p","r","o","d">>, <<"s","t","a","g","i","n","g">> }

\* the arguments of NewOtelTraceProxy and the Stage it finds
Configs ==
    [srcComponent : { <<"s","v","c">>, <<>> },
     endpoint : {"", "collector:4317"},
     user : {"", "u"},
     pass : {"", "p"},
     Stage : Stages]

\* the configuration the handler's model runs under
localConfig ==
    [srcComponent |-> <<"s","v","c">>, endpoint |-> "collector:4317",
     user |-> "u", pass |-> "p", Stage |-> StageLocal]

(***************************************************************************)
(* The upstream collector's answers and the Response Encoder               *)
(*                                                                         *)
(* ExportTraceServiceResponse                                              *)
(*   [partial |-> FALSE]                                                   *)
(*   [partial |-> TRUE, rejectedSpans |-> number, errorMessage |-> text]   *)
(***************************************************************************)
EmptyResponse == [partial |-> FALSE]

PartialResponse == [partial |-> TRUE, rejectedSpans |-> Num(0, 1),
                    errorMessage |-> <<"b","a","d"," ","s","p","a","n">>]

UpstreamResponses == {EmptyResponse, PartialResponse}

UpstreamErrors == {"Unavailable", "PermissionDenied"}

\* the decimal text of the 64-bit values the model uses
decimalTable ==
    { [n |-> Num(0, 1), text |-> <<"1">>],
      [n |-> Num(2^26, 0), text |-> <<"9","0","0","7","1","9","9","2","5","4","7","4","0","9","9","2">>],
      [n |-> Num(2^26, 1), text |-> <<"9","0","0","7","1","9","9","2","5","4","7","4","0","9","9","3">>] }

decimalText(n) == (CHOOSE e \in decimalTable : e.n = n).text

\* protojson.Marshal(resp): 64-bit integers are quoted decimals, unset
\* fields are left out
protojsonMarshal(resp) ==
    [k |-> "json",
     doc |-> IF resp.partial
             THEN Obj([f \in {"partialSuccess"} |->
                         Obj([g \in {"rejectedSpans", "errorMessage"} |->
                                IF g = "rejectedSpans"
                                THEN Str(decimalText(resp.rejectedSpans))
                                ELSE Str(resp.errorMessage)])])
             ELSE Obj(<<>>)]

\* proto.Marshal(resp)
protoMarshal(resp) ==
    [k |-> "wire", corrupt |-> FALSE,
     fields |-> IF resp.partial
                THEN << [num |-> 1,
                         val |-> << [num |-> 1, val |-> resp.rejectedSpans],
                                    [num |-> 2, val |-> resp.errorMessage] >>] >>
                ELSE <<>>]

(***************************************************************************)
(* Clients: how a logical export request is put on the wire                *)
(***************************************************************************)
hexEncode(alpha, b) ==
    [i \in 1..(2 * Len(b)) |->
        IF i % 2 = 1 THEN alpha[(b[(i + 1) \div 2] \div 16) + 1]
        ELSE alpha[(b[i \div 2] % 16) + 1]]

\* an identifier as text: upper-case hex, lower-case hex, or padded base64
idText(style, b) ==
    IF style = "HEX" THEN hexEncode(hexUpper, b)
    ELSE IF style = "hex" THEN hexEncode(hexLower, b)
    ELSE base64EncodeToString(b)

\* a 64-bit integer as a JSON number or as the quoted decimal of protojson
numNode(style, n) ==
    IF style = "number" THEN [t |-> "num", n |-> n] ELSE Str(decimalText(n))

jsonOfSpan(sp, ids, nums) ==
    Obj([key \in {"traceId", "spanId", "name", "startTimeUnixNano"}
                 \cup (IF sp.parentSpanId = <<>> THEN {} ELSE {"parentSpanId"}) |->
            IF key = "traceId" THEN Str(idText(ids, sp.traceId))
            ELSE IF key = "spanId" THEN Str(idText(ids, sp.spanId))
            ELSE IF key = "parentSpanId" THEN Str(idText(ids, sp.parentSpanId))
            ELSE IF key = "name" THEN Str(sp.name)
            ELSE numNode(nums, sp.startTimeUnixNano)])

jsonOfKeyValue(kv) ==
    Obj([key \in {"key", "value"} |->
            IF key = "key" THEN Str(kv.key)
            ELSE Obj([f \in {"stringValue"} |-> Str(kv.value)])])

jsonOfResourceSpans(rs, ids, nums) ==
    Obj([key \in {"scopeSpans"} \cup (IF rs.resource.nil THEN {} ELSE {"resource"}) |->
            IF key = "resource"
            THEN Obj([f \in {"attributes"} |->
                        Arr([i \in DOMAIN rs.resource.attributes |->
                                jsonOfKeyValue(rs.resource.attributes[i])])])
            ELSE Arr([i \in DOMAIN rs.scopeSpans |->
                        Obj([f \in {"spans"} |->
                               Arr([j \in DOMAIN rs.scopeSpans[i].spans |->
                                      jsonOfSpan(rs.scopeSpans[i].spans[j], ids, nums)])])])])

jsonOfRequest(L, ids, nums) ==
    Obj([key \in {"resourceSpans"} |->
            Arr([i \in DOMAIN L.resourceSpans |->
                    jsonOfResourceSpans(L.resourceSpans[i], ids, nums)])])

wireOfSpan(sp) ==
    << [num |-> 1, val |-> sp.traceId], [num |-> 2, val |-> sp.spanId] >>
    \o (IF sp.parentSpanId = <<>> THEN <<>> ELSE << [num |-> 4, val |-> sp.parentSpanId] >>)
    \o << [num |-> 5, val |-> sp.name], [num |-> 7, val |-> sp.startTimeUnixNano] >>

wireOfKeyValue(kv) ==
    << [num |-> 1, val |-> kv.key],
       [num |-> 2, val |-> << [num |-> 1, val |-> kv.value] >>] >>

wireOfResourceSpans(rs) ==
    (IF rs.resource.nil THEN <<>>
     ELSE << [num |-> 1,
              val |-> [i \in DOMAIN rs.resource.attributes |->
                         [num |-> 1, val |-> wireOfKeyValue(rs.resource.attributes[i])]]] >>)
    \o [i \in DOMAIN rs.scopeSpans |->
          [num |-> 2,
           val |-> [j \in DOMAIN rs.scopeSpans[i].spans |->
                      [num |-> 2, val |-> wireOfSpan(rs.scopeSpans[i].spans[j])]]]]

wireOfRequest(L) ==
    [i \in DOMAIN L.resourceSpans |->
        [num |-> 1, val |-> wireOfResourceSpans(L.resourceSpans[i])]]

(***************************************************************************)
(* The requests the model sends                                            *)
(***************************************************************************)
\* how many leading bytes of a trace identifier vary
IdVar == 1

\* how deep the free-form JSON trees nest
MaxDepth == 2

ByteVals == {0, 91, 255}

exampleTraceId == <<91, 142, 255, 247, 152, 3, 129, 3, 210, 105, 182, 51, 129, 63, 198, 12>>

exampleSpanId == <<238, 225, 155, 126, 195, 193, 177, 116>>

TraceIds == { p \o SubSeq(exampleTraceId, IdVar + 1, 16) : p \in [1..IdVar -> ByteVals] }

Times == { e.n : e \in decimalTable }

LogicalSpans ==
    { [traceId |-> tid, spanId |-> exampleSpanId, parentSpanId |-> pid,
       name |-> <<"o","p">>, startTimeUnixNano |-> st] :
         tid \in TraceIds, pid \in {<<>>, exampleSpanId}, st \in Times }

LogicalResources ==
    { NoResource,
      Resource(<<>>),
      Resource(<< [key |-> <<"s","e","r","v","i","c","e",".","n","a","m","e">>, value |-> <<"a","p","p">>] >>) }

\* the logical export requests: one resource span holding one span
Logical ==
    { [resourceSpans |-> << [resource |-> res, scopeSpans |-> << [spans |-> <<sp>>] >>] >>] :
         res \in LogicalResources, sp \in LogicalSpans }

\* how long the attribute sequences sent to the Attribute Enforcer get
MaxAttrs == 2

\* attribute keys a client sends: two override keys and one that is not
AttrKeys ==
    { <<"s","e","r","v","i","c","e",".","n","a","m","e">>,
      <<"d","e","p","l","o","y","m","e","n","t",".","e","n","v","i","r","o","n","m","e","n","t",".","n","a","m","e">>,
      <<"h","o","s","t">> }

AttrValues == { <<"a","p","p">>, <<"s","v","c">> }

AttrSeqs ==
    UNION { [1..n -> [key : AttrKeys, value : AttrValues]] : n \in 0..MaxAttrs }

baseSpan ==
    [traceId |-> exampleTraceId, spanId |-> exampleSpanId, parentSpanId |-> <<>>,
     name |-> <<"o","p">>, startTimeUnixNano |-> Num(0, 1)]

\* requests for the Attribute Enforcer: every attribute sequence on one
\* resource, and the same after a resource span that has no resource
AttrLogical ==
    { [resourceSpans |-> << [resource |-> Resource(a),
                             scopeSpans |-> << [spans |-> <<baseSpan>>] >>] >>] :
         a \in AttrSeqs }
    \cup
    { [resourceSpans |-> << [resource |-> NoResource,
                             scopeSpans |-> << [spans |-> <<baseSpan>>] >>],
                            [resource |-> Resource(a),
                             scopeSpans |-> << [spans |-> <<baseSpan>>] >>] >>] :
         a \in { q \in AttrSeqs : Len(q) <= 1 } }

\* the end-to-end example: a resource without attributes and one span that
\* has a traceId and a spanId only, both as upper-case hex text
exampleDoc(traceIdText) ==
    Obj([k1 \in {"resourceSpans"} |->
        Arr(<< Obj([k2 \in {"resource", "scopeSpans"} |->
                  IF k2 = "resource"
                  THEN Obj([k3 \in {"attributes"} |-> Arr(<<>>)])
                  ELSE Arr(<< Obj([k3 \in {"spans"} |->
                            Arr(<< Obj([k4 \in {"traceId", "spanId"} |->
                                      IF k4 = "traceId" THEN Str(traceIdText)
                                      ELSE Str(hexEncode(hexUpper, exampleSpanId))]) >>)]) >>)]) >>)])

\* "5B8EFFF798038103D269B633813FC60C", the 32 digits of exampleTraceId
exampleTraceIdText == hexEncode(hexUpper, exampleTraceId)

\* "5B8EFFF798038103D269B633813FC60", the same without its last digit
exampleTraceIdText31 == SubSeq(exampleTraceIdText, 1, 31)

ExampleDocs == { exampleDoc(exampleTraceIdText), exampleDoc(exampleTraceIdText31) }

IdStyles == {"HEX", "hex", "base64"}

NumStyles == {"number", "quoted"}

\* free-form JSON: leaves wrapped in up to MaxDepth objects and arrays
Leaves ==
    { Str(<<"5","B","8","E">>), Str(<<"f","f">>), Str(<<"5","B","8">>), Str(<<"z","z">>), Str(<<"W","4","4","=">>),
      Null, [t |-> "num", n |-> Num(0, 1)],
      Obj([key \in {"traceId", "name", "spanId"} |->
             IF key = "spanId" THEN Arr(<< Str(<<"f","f">>) >>) ELSE Str(<<"5","B","8","E">>)]) }

WrapKeys == {"traceId", "spanId", "parentSpanId", "spans"}

RECURSIVE Wrapped(_)
Wrapped(d) ==
    IF d = 0 THEN Leaves
    ELSE Wrapped(d - 1)
         \cup { Obj([key \in {k} |-> v]) : k \in WrapKeys, v \in Wrapped(d - 1) }
         \cup { Arr(<<v>>) : v \in Wrapped(d - 1) }

FreeDocs == { Obj([key \in {k} |-> v]) : k \in WrapKeys, v \in Wrapped(MaxDepth - 1) }

Bodies ==
    { [k |-> "json", doc |-> jsonOfRequest(L, ids, nums)] :
         L \in Logical, ids \in IdStyles, nums \in NumStyles }
    \cup { [k |-> "json", doc |-> d] : d \in FreeDocs \cup ExampleDocs }
    \cup { [k |-> "json", doc |-> d] : d \in {Null, Obj(<<>>), Arr(<<>>)} }
    \cup { [k |-> "wire", corrupt |-> FALSE, fields |-> wireOfRequest(L)] :
              L \in Logical \cup AttrLogical }
    \cup { [k |-> "wire", corrupt |-> c, fields |-> <<>>] : c \in BOOLEAN }
    \cup { [k |-> "badjson"], [k |-> "unreadable"] }

Methods == {"POST", "GET"}

\* a Content-Type header is text in chunks, cut where a prefix test can end
ContentTypes ==
    { <<"application/json">>, <<"application/json", "; charset=utf-8">>,
      <<"application/x-protobuf">>, <<"text/plain">>, <<>> }

Requests == [method : Methods, contentType : ContentTypes, body : Bodies]

(***************************************************************************)
(* The /v1/traces handler (otelProxy.traces)                               *)
(***************************************************************************)
StatusOK == 200

StatusBadRequest == 400

StatusMethodNotAllowed == 405

StatusUnsupportedMediaType == 415

StatusInternalServerError == 500

\* strings.HasPrefix(contentType, prefix)
HasPrefix(contentType, prefix) == Len(contentType) >= 1 /\ contentType[1] = prefix

\* http.Error(w, msg, code)
httpError(msg, code) ==
    [status |-> code, contentType |-> "text/plain; charset=utf-8",
     body |-> [k |-> "text", s |-> msg]]

NoBody == [k |-> "none"]

NoResponse == [status |-> 0, contentType |-> "", body |-> NoBody]

NoRequest == [method |-> "", contentType |-> <<>>, body |-> NoBody]

EmptyRequest == [resourceSpans |-> <<>>]

decodeFailure(code, msg, logMsg, generic) ==
    [ok |-> FALSE, status |-> code, msg |-> msg, log |-> logMsg, generic |-> generic]

\* the return after the schema error is missing: the request goes on as it is
decodeJSONNoReturn(b) ==
    LET parsed == jsonUnmarshal(b)
    IN IF ~parsed.ok
       THEN decodeFailure(StatusBadRequest, "Bad request body",
                          "Error unmarshaling JSON into generic map", Null)
       ELSE LET generic == transformHexIdsToBase64(parsed.v)
                decoded == protojsonUnmarshal(jsonMarshal(generic))
            IN [ok |-> TRUE, req |-> IF decoded.ok THEN decoded.v ELSE EmptyRequest,
                generic |-> generic]

\* the JSON case of the handler's switch (otel_proxy.go:109-132)
decodeJSON(b) ==
    LET parsed == jsonUnmarshal(b)
    IN IF ~parsed.ok
       THEN decodeFailure(StatusBadRequest, "Bad request body",
                          "Error unmarshaling JSON into generic map", Null)
       ELSE LET generic   == transformHexIdsToBase64(parsed.v)
                corrected == jsonMarshal(generic)
                decoded   == protojsonUnmarshal(corrected)
            IN IF ~decoded.ok
               THEN decodeFailure(StatusBadRequest, "Bad request body",
                                  "Error unmarshaling JSON", generic)
               ELSE [ok |-> TRUE, req |-> decoded.v, generic |-> generic]

\* the protobuf case (otel_proxy.go:133-138)
decodeProtobuf(b) ==
    LET decoded == protoUnmarshal(b)
    IN IF ~decoded.ok
       THEN decodeFailure(StatusBadRequest, "Bad request body",
                          "Error unmarshaling protobuf", Null)
       ELSE [ok |-> TRUE, req |-> decoded.v, generic |-> Null]

\* the switch on the Content-Type (otel_proxy.go:108-143)
decodeBody(contentType, b) ==
    IF HasPrefix(contentType, "application/json") THEN decodeJSON(b)
    ELSE IF HasPrefix(contentType, "application/x-protobuf") THEN decodeProtobuf(b)
    ELSE decodeFailure(StatusUnsupportedMediaType, "Unsupported Content-Type",
                       "Unsupported Content-Type", Null)

\* the answer is always written as JSON
encodeResponseAlwaysJSON(contentType, rs) ==
    [body |-> protojsonMarshal(rs), contentType |-> "application/json"]

\* the switch that serializes the collector's answer (otel_proxy.go:162-169)
encodeResponse(contentType, rs) ==
    IF HasPrefix(contentType, "application/json")
    THEN [body |-> protojsonMarshal(rs), contentType |-> "application/json"]
    ELSE IF HasPrefix(contentType, "application/x-protobuf")
    THEN [body |-> protoMarshal(rs), contentType |-> "application/x-protobuf"]
    ELSE [body |-> NoBody, contentType |-> ""]

\* the OpenAPI handler before it is called
idleOpenAPI ==
    [pc |-> "idle", spec |-> <<>>, status |-> 0, handlerHeader |-> "",
     wroteHeader |-> FALSE, committedHeader |-> "", sent |-> NoResponse]

\* how many invocations of the function RunWithPgLock returns run side by side
NumInvocations == 2

Invocations == 1..NumInvocations

\* an invocation that has not been called
idleInvocation ==
    [pc |-> "idle", name |-> "", tx |-> "none", acquired |-> FALSE,
     ran |-> 0, result |-> "pending"]

idleInvocations == [i \in Invocations |-> idleInvocation]

\* how many requests are handled side by side
NumHandlers == 2

Handlers == 1..NumHandlers

\* a handler that has no request
idleHandler ==
    [pc |-> "idle", r |-> NoRequest, req |-> EmptyRequest, exported |-> <<>>,
     resp |-> EmptyResponse, exportErr |-> "", w |-> NoResponse]

idleHandlers == [i \in Handlers |-> idleHandler]

VARIABLES
    pc,              \* where the handler is
    r,               \* the inbound request
    body,            \* the bytes io.ReadAll returned
    genericPayload,  \* the generic tree, after transformHexIdsToBase64
    req,             \* the ExportTraceServiceRequest
    exportCalls,     \* Export calls issued for this request
    exported,        \* the payloads of those calls
    resp,            \* the collector's answer
    exportErr,       \* the collector's error, "" when none
    respBody,        \* the serialized answer
    respContentType,
    w,               \* what the ResponseWriter has been given
    logged,          \* what log.Printf has been given for this request
    attributes,      \* p.attributes
    ctxDone,         \* r.Context() has been cancelled
    exportCtx,       \* the context the Export call in flight was given
    newpc,           \* where NewOtelTraceProxy is
    config,          \* its arguments and the package's Stage
    opts,            \* the dial options
    conn,            \* the client connection
    ret,             \* what NewOtelTraceProxy returned
    h,               \* the handlers running side by side
    oa,              \* the handler OpenAPISpecHandler returned and its ResponseWriter
    inv,             \* the invocations of the function RunWithPgLock returned
    locks            \* the database's advisory locks: the transactions holding them

vars == <<pc, r, body, genericPayload, req, exportCalls, exported, resp, exportErr,
          respBody, respContentType, w, logged, attributes, ctxDone, exportCtx,
          newpc, config, opts, conn, ret, h, oa, inv, locks>>

\* what one handler running on its own leaves alone
farVars == <<newpc, config, opts, conn, ret, h, oa, inv, locks>>

Init ==
    /\ pc = "idle"
    /\ r = NoRequest
    /\ body = NoBody
    /\ genericPayload = Null
    /\ req = EmptyRequest
    /\ exportCalls = 0
    /\ exported = <<>>
    /\ resp = EmptyResponse
    /\ exportErr = ""
    /\ respBody = NoBody
    /\ respContentType = ""
    /\ w = NoResponse
    /\ logged = <<>>
    /\ attributes = proxyAttributes
    /\ ctxDone = FALSE
    /\ exportCtx = ""
    /\ newpc = "returned"
    /\ config = localConfig
    /\ opts = dialOptions(localConfig.Stage, localConfig.user, localConfig.pass)
    /\ conn = newClient(localConfig.endpoint,
                        dialOptions(localConfig.Stage, localConfig.user, localConfig.pass))
    /\ ret = [returned |-> TRUE, handler |-> TRUE, err |-> ""]
    /\ h = idleHandlers
    /\ oa = idleOpenAPI
    /\ inv = idleInvocations
    /\ locks = {}

\* the server calls the handler with a new request
Arrive ==
    /\ pc = "idle"
    /\ \E rq \in Requests : r' = rq
    /\ pc' = "received"
    /\ UNCHANGED <<body, genericPayload, req, exportCalls, exported, resp, exportErr,
                   respBody, respContentType, w, logged, attributes>>
    /\ ctxDone' = FALSE
    /\ UNCHANGED <<exportCtx, farVars>>

\* the handler returns; its locals and the request's writer are gone
Return ==
    /\ pc = "responded"
    /\ pc' = "idle"
    /\ r' = NoRequest
    /\ body' = NoBody
    /\ genericPayload' = Null
    /\ req' = EmptyRequest
    /\ exportCalls' = 0
    /\ exported' = <<>>
    /\ resp' = EmptyResponse
    /\ exportErr' = ""
    /\ respBody' = NoBody
    /\ respContentType' = ""
    /\ w' = NoResponse
    /\ logged' = <<>>
    /\ UNCHANGED attributes
    /\ ctxDone' = FALSE
    /\ exportCtx' = ""
    /\ UNCHANGED farVars

\* the method is not looked at
CheckMethodSkipped ==
    /\ pc = "received"
    /\ pc' = "methodChecked"
    /\ UNCHANGED <<r, body, genericPayload, req, exportCalls, exported, resp, exportErr,
                   respBody, respContentType, w, logged, attributes>>
    /\ UNCHANGED <<ctxDone, exportCtx, farVars>>

\* otel_proxy.go:90-93
CheckMethod ==
    /\ pc = "received"
    /\ IF r.method # "POST"
       THEN /\ w' = httpError("Method not allowed", StatusMethodNotAllowed)
            /\ pc' = "responded"
       ELSE /\ pc' = "methodChecked"
            /\ UNCHANGED w
    /\ UNCHANGED <<r, body, genericPayload, req, exportCalls, exported, resp, exportErr,
                   respBody, respContentType, logged, attributes>>
    /\ UNCHANGED <<ctxDone, exportCtx, farVars>>

\* otel_proxy.go:95-103
ReadBody ==
    /\ pc = "methodChecked"
    /\ IF r.body.k = "unreadable"
       THEN /\ logged' = Append(logged, "Error reading request body")
            /\ w' = httpError("Error reading request body", StatusInternalServerError)
            /\ pc' = "responded"
            /\ UNCHANGED body
       ELSE /\ body' = r.body
            /\ pc' = "bodyRead"
            /\ UNCHANGED <<w, logged>>
    /\ UNCHANGED <<r, genericPayload, req, exportCalls, exported, resp, exportErr,
                   respBody, respContentType, attributes>>
    /\ UNCHANGED <<ctxDone, exportCtx, farVars>>

\* otel_proxy.go:105-143
Decode ==
    /\ pc = "bodyRead"
    /\ \E d \in {decodeBody(r.contentType, body)} :
          /\ genericPayload' = d.generic
          /\ IF d.ok
             THEN /\ req' = d.req
                  /\ pc' = "decoded"
                  /\ UNCHANGED <<w, logged>>
             ELSE /\ logged' = Append(logged, d.log)
                  /\ w' = httpError(d.msg, d.status)
                  /\ pc' = "responded"
                  /\ UNCHANGED req
    /\ UNCHANGED <<r, body, exportCalls, exported, resp, exportErr, respBody,
                   respContentType, attributes>>
    /\ UNCHANGED <<ctxDone, exportCtx, farVars>>

\* the request goes on without the override attributes
EnforceSkipped ==
    /\ pc = "decoded"
    /\ pc' = "enforced"
    /\ UNCHANGED <<r, body, genericPayload, req, exportCalls, exported, resp, exportErr,
                   respBody, respContentType, w, logged, attributes>>
    /\ UNCHANGED <<ctxDone, exportCtx, farVars>>

\* otel_proxy.go:145-146
Enforce ==
    /\ pc = "decoded"
    /\ req' = overrideResourceAttributes(req, attributes)
    /\ pc' = "enforced"
    /\ UNCHANGED <<r, body, genericPayload, exportCalls, exported, resp, exportErr,
                   respBody, respContentType, w, logged, attributes>>
    /\ UNCHANGED <<ctxDone, exportCtx, farVars>>

\* the call was given a context that is never cancelled
ForwardBackground ==
    /\ pc = "enforced"
    /\ exportCalls' = exportCalls + 1
    /\ exported' = Append(exported, req)
    /\ logged' = Append(logged, "Forwarding resource spans to gRPC collector")
    /\ pc' = "exporting"
    /\ exportCtx' = "context.Background()"
    /\ UNCHANGED <<r, body, genericPayload, req, resp, exportErr, respBody,
                   respContentType, w, attributes, ctxDone, farVars>>

\* otel_proxy.go:148-149, the call is issued
Forward ==
    /\ pc = "enforced"
    /\ exportCalls' = exportCalls + 1
    /\ exported' = Append(exported, req)
    /\ logged' = Append(logged, "Forwarding resource spans to gRPC collector")
    /\ pc' = "exporting"
    /\ UNCHANGED <<r, body, genericPayload, req, resp, exportErr, respBody,
                   respContentType, w, attributes>>
    /\ exportCtx' = "r.Context()"
    /\ UNCHANGED <<ctxDone, farVars>>

\* otel_proxy.go:149, the call returns an answer
ExportOk ==
    /\ pc = "exporting"
    /\ \E rs \in UpstreamResponses : resp' = rs
    /\ pc' = "forwarded"
    /\ UNCHANGED <<r, body, genericPayload, req, exportCalls, exported, exportErr,
                   respBody, respContentType, w, logged, attributes>>
    /\ UNCHANGED <<ctxDone, exportCtx, farVars>>

\* the collector's error is passed on to the client
forwardFailureEcho(err) == httpError(err, StatusInternalServerError)

\* what the client is told when Export failed with err (otel_proxy.go:153)
forwardFailure(err) == httpError("Failed to forward traces", StatusInternalServerError)

\* the call is tried again after an error
ExportFailRetry ==
    /\ pc = "exporting"
    /\ \E err \in UpstreamErrors :
          /\ exportErr' = err
          /\ logged' = Append(logged, err)
    /\ pc' = "enforced"
    /\ UNCHANGED <<r, body, genericPayload, req, exportCalls, exported, resp,
                   respBody, respContentType, w, attributes>>
    /\ UNCHANGED <<ctxDone, exportCtx, farVars>>

\* the return after the error answer is missing
ExportFailNoReturn ==
    /\ pc = "exporting"
    /\ \E err \in UpstreamErrors :
          /\ exportErr' = err
          /\ logged' = Append(logged, err)
          /\ w' = forwardFailure(err)
    /\ resp' = EmptyResponse
    /\ pc' = "forwarded"
    /\ UNCHANGED <<r, body, genericPayload, req, exportCalls, exported,
                   respBody, respContentType, attributes>>
    /\ UNCHANGED <<ctxDone, exportCtx, farVars>>

\* otel_proxy.go:149-155, the call returns an error
ExportFail ==
    /\ pc = "exporting"
    /\ \E err \in UpstreamErrors :
          /\ exportErr' = err
          /\ logged' = Append(logged, err)
          /\ w' = forwardFailure(err)
    /\ pc' = "responded"
    /\ UNCHANGED <<r, body, genericPayload, req, exportCalls, exported, resp,
                   respBody, respContentType, attributes>>
    /\ UNCHANGED <<ctxDone, exportCtx, farVars>>

\* the client goes away, or the request's deadline passes, while the Export
\* call is in flight
Cancel ==
    /\ pc = "exporting"
    /\ ~ctxDone
    /\ ctxDone' = TRUE
    /\ UNCHANGED <<pc, r, body, genericPayload, req, exportCalls, exported, resp,
                   exportErr, respBody, respContentType, w, logged, attributes,
                   exportCtx, farVars>>

\* otel_proxy.go:149-155, the call ends with the error of its cancelled context
ExportCanceled ==
    /\ pc = "exporting"
    /\ exportCtx = "r.Context()" /\ ctxDone
    /\ exportErr' = "Canceled"
    /\ logged' = Append(logged, "Canceled")
    /\ w' = forwardFailure("Canceled")
    /\ pc' = "responded"
    /\ UNCHANGED <<r, body, genericPayload, req, exportCalls, exported, resp,
                   respBody, respContentType, attributes, ctxDone, exportCtx, farVars>>

\* otel_proxy.go:157-175
Encode ==
    /\ pc = "forwarded"
    /\ \E encoded \in {encodeResponse(r.contentType, resp)} :
          /\ respBody' = encoded.body
          /\ respContentType' = encoded.contentType
    /\ pc' = "encoded"
    /\ UNCHANGED <<r, body, genericPayload, req, exportCalls, exported, resp, exportErr,
                   w, logged, attributes>>
    /\ UNCHANGED <<ctxDone, exportCtx, farVars>>

\* otel_proxy.go:177-182
Respond ==
    /\ pc = "encoded"
    /\ w' = [status |-> StatusOK, contentType |-> respContentType, body |-> respBody]
    /\ pc' = "responded"
    /\ UNCHANGED <<r, body, genericPayload, req, exportCalls, exported, resp, exportErr,
                   respBody, respContentType, logged, attributes>>
    /\ UNCHANGED <<ctxDone, exportCtx, farVars>>

Next ==
    \/ Arrive
    \/ CheckMethod
    \/ ReadBody
    \/ Decode
    \/ Enforce
    \/ Forward
    \/ ExportOk
    \/ ExportFail
    \/ Cancel
    \/ ExportCanceled
    \/ Encode
    \/ Respond
    \/ Return

Spec == Init /\ [][Next]_vars

\* an Export call whose context is cancelled returns, and the handler takes
\* the steps that follow the call once it can; the collector need never answer
LiveSpec ==
    /\ Init /\ [][Next]_vars
    /\ WF_vars(ExportCanceled) /\ WF_vars(Encode) /\ WF_vars(Respond)

(***************************************************************************)
(* NewOtelTraceProxy, step by step                                         *)
(***************************************************************************)
\* the handler's variables while the proxy is being constructed
noTraffic ==
    /\ pc = "idle" /\ r = NoRequest /\ body = NoBody /\ genericPayload = Null
    /\ req = EmptyRequest /\ exportCalls = 0 /\ exported = <<>>
    /\ resp = EmptyResponse /\ exportErr = "" /\ respBody = NoBody
    /\ respContentType = "" /\ w = NoResponse /\ logged = <<>>
    /\ ctxDone = FALSE /\ exportCtx = "" /\ h = idleHandlers

trafficVars ==
    <<pc, r, body, genericPayload, req, exportCalls, exported, resp, exportErr,
      respBody, respContentType, w, logged, ctxDone, exportCtx, h, oa, inv, locks>>

\* NewOtelTraceProxy is called
InitNew ==
    /\ noTraffic
    /\ oa = idleOpenAPI /\ inv = idleInvocations /\ locks = {}
    /\ attributes = <<>>
    /\ newpc = "start"
    /\ config \in Configs
    /\ opts = <<>>
    /\ conn = NoConn
    /\ ret = NoReturn

\* otel_proxy.go:35-43
ValidateArgs ==
    /\ newpc = "start"
    /\ \E e \in {argsError(config.endpoint, config.user, config.pass)} :
          IF e # ""
          THEN /\ ret' = [returned |-> TRUE, handler |-> FALSE, err |-> e]
               /\ newpc' = "returned"
          ELSE /\ newpc' = "validated"
               /\ UNCHANGED ret
    /\ UNCHANGED <<config, opts, conn, attributes, trafficVars>>

\* otel_proxy.go:45-53
DialOptions ==
    /\ newpc = "validated"
    /\ opts' = dialOptions(config.Stage, config.user, config.pass)
    /\ newpc' = "options"
    /\ UNCHANGED <<config, conn, ret, attributes, trafficVars>>

\* otel_proxy.go:55-58: grpc.NewClient gives a connection or an error
NewClient ==
    /\ newpc = "options"
    /\ \/ /\ conn' = newClient(config.endpoint, opts)
          /\ newpc' = "connected"
          /\ UNCHANGED ret
       \/ /\ ret' = [returned |-> TRUE, handler |-> FALSE,
                      err |-> "failed to connect to gRPC collector"]
          /\ newpc' = "returned"
          /\ UNCHANGED conn
    /\ UNCHANGED <<config, opts, attributes, trafficVars>>

\* otel_proxy.go:60-86
NewProxy ==
    /\ newpc = "connected"
    /\ attributes' = newAttributes(config.srcComponent, config.Stage)
    /\ ret' = [returned |-> TRUE, handler |-> TRUE, err |-> ""]
    /\ newpc' = "returned"
    /\ UNCHANGED <<config, opts, conn, trafficVars>>

NewOtelTraceProxy ==
    \/ ValidateArgs
    \/ DialOptions
    \/ NewClient
    \/ NewProxy

ConstructSpec == InitNew /\ [][NewOtelTraceProxy]_vars

(***************************************************************************)
(* Handlers side by side: net/http runs traces once per request, each call *)
(* with its own locals, all on the one otelProxy                           *)
(***************************************************************************)
\* the requests sent side by side
ConcRequests ==
    { [method |-> "POST", contentType |-> <<"application/json">>,
       body |-> [k |-> "json", doc |-> exampleDoc(exampleTraceIdText)]],
      [method |-> "POST", contentType |-> <<"application/x-protobuf">>,
       body |-> [k |-> "wire", corrupt |-> FALSE,
                 fields |-> wireOfRequest(
                    [resourceSpans |->
                       << [resource |-> Resource(<< [key |-> proxyAttributes[4].key,
                                                     value |-> <<"a","p","p">>] >>),
                           scopeSpans |-> << [spans |-> <<baseSpan>>] >>] >>])]],
      [method |-> "POST", contentType |-> <<"application/json">>, body |-> [k |-> "badjson"]],
      [method |-> "GET", contentType |-> <<"application/json">>,
       body |-> [k |-> "json", doc |-> Obj(<<>>)]],
      [method |-> "POST", contentType |-> <<"text/plain">>, body |-> [k |-> "badjson"]] }

\* what decoding leaves: the request, or the answer that ends the handler
decodeOutcome(d) ==
    IF d.ok THEN [ok |-> TRUE, req |-> d.req]
    ELSE [ok |-> FALSE, w |-> httpError(d.msg, d.status)]

\* otel_proxy.go:90-143 for request rq
receive(rq) ==
    IF rq.method # "POST"
    THEN [ok |-> FALSE, w |-> httpError("Method not allowed", StatusMethodNotAllowed)]
    ELSE IF rq.body.k = "unreadable"
    THEN [ok |-> FALSE,
          w |-> httpError("Error reading request body", StatusInternalServerError)]
    ELSE decodeOutcome(decodeBody(rq.contentType, rq.body))

\* the request as Export serializes it. After upsertAttribute every attribute
\* with an override key holds a pointer into p.attributes (kv.Value =
\* newKv.Value at line 239, append(attrs, newKv) at line 252), so its value is
\* the one the shared attribute has when the call is made.
sharedValues(rq, shared) ==
    [rq EXCEPT !.resourceSpans =
        [i \in DOMAIN rq.resourceSpans |->
            IF rq.resourceSpans[i].resource.nil THEN rq.resourceSpans[i]
            ELSE [rq.resourceSpans[i] EXCEPT !.resource.attributes =
                     upsertReplace(rq.resourceSpans[i].resource.attributes, shared)]]]

\* everything but the side-by-side handlers and the shared attributes
soloVars ==
    <<pc, r, body, genericPayload, req, exportCalls, exported, resp, exportErr,
      respBody, respContentType, w, logged, ctxDone, exportCtx,
      newpc, config, opts, conn, ret, oa, inv, locks>>

ConcArrive(i) ==
    /\ h[i].pc = "idle"
    /\ \E rq \in ConcRequests : h' = [h EXCEPT ![i].r = rq, ![i].pc = "received"]
    /\ UNCHANGED <<attributes, soloVars>>

\* otel_proxy.go:90-143
ConcDecode(i) ==
    /\ h[i].pc = "received"
    /\ \E d \in {receive(h[i].r)} :
          IF d.ok
          THEN h' = [h EXCEPT ![i].req = d.req, ![i].pc = "decoded"]
          ELSE h' = [h EXCEPT ![i].w = d.w, ![i].pc = "responded"]
    /\ UNCHANGED <<attributes, soloVars>>

\* the enforcer assigns the request's values to the shared attributes
\* (newKv.Value = kv.Value)
ConcEnforceWritesShared(i) ==
    /\ h[i].pc = "decoded"
    /\ h' = [h EXCEPT ![i].req = overrideResourceAttributes(h[i].req, attributes),
                      ![i].pc = "enforced"]
    /\ attributes' =
          [j \in DOMAIN attributes |->
              IF \E n \in DOMAIN h[i].req.resourceSpans :
                    /\ ~h[i].req.resourceSpans[n].resource.nil
                    /\ \E x \in DOMAIN h[i].req.resourceSpans[n].resource.attributes :
                          h[i].req.resourceSpans[n].resource.attributes[x].key
                             = attributes[j].key
              THEN [attributes[j] EXCEPT !.value = <<"a","p","p">>]
              ELSE attributes[j]]
    /\ UNCHANGED soloVars

\* otel_proxy.go:145-146: p.attributes and its elements are read only
ConcEnforce(i) ==
    /\ h[i].pc = "decoded"
    /\ h' = [h EXCEPT ![i].req = overrideResourceAttributes(h[i].req, attributes),
                      ![i].pc = "enforced"]
    /\ UNCHANGED <<attributes, soloVars>>

\* otel_proxy.go:148-149
ConcForward(i) ==
    /\ h[i].pc = "enforced"
    /\ h' = [h EXCEPT ![i].exported = <<sharedValues(h[i].req, attributes)>>,
                      ![i].pc = "exporting"]
    /\ UNCHANGED <<attributes, soloVars>>

ConcExportOk(i) ==
    /\ h[i].pc = "exporting"
    /\ \E rs \in UpstreamResponses :
          h' = [h EXCEPT ![i].resp = rs, ![i].pc = "forwarded"]
    /\ UNCHANGED <<attributes, soloVars>>

\* otel_proxy.go:150-155
ConcExportFail(i) ==
    /\ h[i].pc = "exporting"
    /\ \E err \in UpstreamErrors :
          h' = [h EXCEPT ![i].exportErr = err, ![i].w = forwardFailure(err),
                         ![i].pc = "responded"]
    /\ UNCHANGED <<attributes, soloVars>>

\* otel_proxy.go:157-182
ConcRespond(i) ==
    /\ h[i].pc = "forwarded"
    /\ \E encoded \in {encodeResponse(h[i].r.contentType, h[i].resp)} :
          h' = [h EXCEPT ![i].w = [status |-> StatusOK,
                                   contentType |-> encoded.contentType,
                                   body |-> encoded.body],
                         ![i].pc = "responded"]
    /\ UNCHANGED <<attributes, soloVars>>

ConcNext ==
    \E i \in Handlers :
        \/ ConcArrive(i)
        \/ ConcDecode(i)
        \/ ConcEnforce(i)
        \/ ConcForward(i)
        \/ ConcExportOk(i)
        \/ ConcExportFail(i)
        \/ ConcRespond(i)

ConcSpec == Init /\ [][ConcNext]_vars

(***************************************************************************)
(* OpenAPISpecHandler and the ResponseWriter of net/http                   *)
(*                                                                         *)
(* The document is text in chunks, cut where content sniffing looks.       *)
(***************************************************************************)
\* how many chunks a document has at most
MaxSpecLen == 3

SpecChunks == {"<!DOCTYPE html", "<p", ">", " ", "{", "NUL"}

SpecBytes == UNION { [1..n -> SpecChunks] : n \in 0..MaxSpecLen }

RECURSIVE skipWS(_)
\* the data after its leading white space
skipWS(data) ==
    IF data # <<>> /\ Head(data) = " " THEN skipWS(Tail(data)) ELSE data

\* an HTML signature is followed by a tag-terminating byte
htmlSig(d) == Len(d) >= 2 /\ d[1] \in {"<!DOCTYPE html", "<p"} /\ d[2] \in {" ", ">"}

\* http.DetectContentType on the signatures the chunks can form: HTML first,
\* then text when no binary byte is there
DetectContentType(data) ==
    IF htmlSig(skipWS(data)) THEN "text/html; charset=utf-8"
    ELSE IF \E i \in DOMAIN data : data[i] = "NUL" THEN "application/octet-stream"
    ELSE "text/plain; charset=utf-8"

\* ResponseWriter.WriteHeader: the status and the headers as they are now are
\* what will be sent; a second call changes nothing
writeHeader(rw, code) ==
    IF rw.wroteHeader THEN rw
    ELSE [rw EXCEPT !.wroteHeader = TRUE, !.status = code,
                    !.committedHeader = rw.handlerHeader]

\* ResponseWriter.Header().Set("Content-Type", value): the handler's map
\* changes; what WriteHeader has taken is not touched
setContentType(rw, value) == [rw EXCEPT !.handlerHeader = value]

\* what Write sends after the headers were taken: a missing Content-Type is
\* sniffed from the data when there is data
sendBody(rw, data) ==
    [rw EXCEPT !.sent =
        [status |-> rw.status,
         contentType |-> IF rw.committedHeader # "" THEN rw.committedHeader
                         ELSE IF Len(data) > 0 THEN DetectContentType(data)
                         ELSE "",
         body |-> [k |-> "bytes", s |-> data]]]

\* ResponseWriter.Write: WriteHeader(200) first if it was not called
write(rw, data) == sendBody(writeHeader(rw, StatusOK), data)

\* the proxy constructed and without traffic, as Init has it
proxyAtRest ==
    /\ noTraffic
    /\ attributes = proxyAttributes
    /\ newpc = "returned"
    /\ config = localConfig
    /\ opts = dialOptions(localConfig.Stage, localConfig.user, localConfig.pass)
    /\ conn = newClient(localConfig.endpoint,
                        dialOptions(localConfig.Stage, localConfig.user, localConfig.pass))
    /\ ret = [returned |-> TRUE, handler |-> TRUE, err |-> ""]

proxyVars ==
    <<pc, r, body, genericPayload, req, exportCalls, exported, resp, exportErr,
      respBody, respContentType, w, logged, attributes, ctxDone, exportCtx,
      newpc, config, opts, conn, ret, h>>

\* the handler made for a document is called
InitOpenAPI ==
    /\ proxyAtRest
    /\ \E spec \in SpecBytes : oa = [idleOpenAPI EXCEPT !.pc = "called", !.spec = spec]
    /\ inv = idleInvocations
    /\ locks = {}

\* part_002:10
OpenAPIWriteHeader ==
    /\ oa.pc = "called"
    /\ oa' = [writeHeader(oa, StatusOK) EXCEPT !.pc = "wroteHeader"]
    /\ UNCHANGED <<proxyVars, inv, locks>>

\* part_002:11
OpenAPISetHeader ==
    /\ oa.pc = "wroteHeader"
    /\ oa' = [setContentType(oa, "text/html; charset=utf-8") EXCEPT !.pc = "headerSet"]
    /\ UNCHANGED <<proxyVars, inv, locks>>

\* part_002:12
OpenAPIWrite ==
    /\ oa.pc = "headerSet"
    /\ oa' = [write(oa, oa.spec) EXCEPT !.pc = "written"]
    /\ UNCHANGED <<proxyVars, inv, locks>>

OpenAPISpecHandler ==
    \/ OpenAPIWriteHeader
    \/ OpenAPISetHeader
    \/ OpenAPIWrite

OpenAPISpec == InitOpenAPI /\ [][OpenAPISpecHandler]_vars

(***************************************************************************)
(* RunWithPgLock: invocations side by side on one database                 *)
(*                                                                         *)
(* Each invocation begins its own transaction on a pooled connection. A    *)
(* transaction is "open" until it is "committed" or "rolledback", or until *)
(* its connection is "closed", on which the server rolls it back. The      *)
(* server drops a transaction's advisory locks when the transaction ends.  *)
(***************************************************************************)
LockNames == {"cleanup", "report"}

\* int64(fnv.New64a of name), in hex
lockID(name) ==
    IF name = "cleanup" THEN "ac583b1bcf5c2ab3"
    ELSE IF name = "report" THEN "adae49645df2840b"
    ELSE ""

\* pg_try_advisory_xact_lock(id) asked by transaction t: the lock is granted
\* unless another transaction holds it
lockFree(held, id, t) == \A l \in held : l.id = id => l.tx = t

\* the locks left when transaction t has ended
released(held, t) == { l \in held : l.tx # t }

pgVars ==
    <<pc, r, body, genericPayload, req, exportCalls, exported, resp, exportErr,
      respBody, respContentType, w, logged, attributes, ctxDone, exportCtx,
      newpc, config, opts, conn, ret, h, oa>>

\* the function RunWithPgLock returned for some name is called
PgCall(i) ==
    /\ inv[i].pc = "idle"
    /\ \E name \in LockNames :
          inv' = [inv EXCEPT ![i] = [idleInvocation EXCEPT !.pc = "begin", !.name = name]]
    /\ UNCHANGED <<locks, pgVars>>

\* part_004:164-168
PgBegin(i) ==
    /\ inv[i].pc = "begin"
    /\ \/ inv' = [inv EXCEPT ![i].tx = "open", ![i].pc = "query"]
       \/ inv' = [inv EXCEPT ![i].result = "error", ![i].pc = "returned"]
    /\ UNCHANGED <<locks, pgVars>>

\* part_004:170-178: the query fails, with the lock taken or not, or it tells
\* whether the lock was granted; on a lost session it can only fail
PgTryLock(i) ==
    /\ inv[i].pc = "query"
    /\ \E free \in {inv[i].tx = "open" /\ lockFree(locks, lockID(inv[i].name), i)} :
          \/ /\ inv' = [inv EXCEPT ![i].result = "error", ![i].pc = "rollback"]
             /\ \/ UNCHANGED locks
                \/ /\ free
                   /\ locks' = locks \cup {[id |-> lockID(inv[i].name), tx |-> i]}
          \/ /\ free
             /\ locks' = locks \cup {[id |-> lockID(inv[i].name), tx |-> i]}
             /\ inv' = [inv EXCEPT ![i].acquired = TRUE, ![i].pc = "fn"]
          \/ /\ ~free /\ inv[i].tx = "open"
             /\ inv' = [inv EXCEPT ![i].acquired = FALSE, ![i].result = "nil",
                                   ![i].pc = "rollback"]
             /\ UNCHANGED locks
    /\ UNCHANGED pgVars

\* part_004:180, fn is entered
PgFnStart(i) ==
    /\ inv[i].pc = "fn"
    /\ inv' = [inv EXCEPT ![i].ran = @ + 1, ![i].pc = "running"]
    /\ UNCHANGED <<locks, pgVars>>

\* part_004:180, fn returns
PgFnReturn(i) ==
    /\ inv[i].pc = "running"
    /\ inv' = [inv EXCEPT ![i].pc = "commit"]
    /\ UNCHANGED <<locks, pgVars>>

\* part_004:182-186: the commit goes through, or it fails and the
\* transaction is over with its connection; on a lost session it can only fail
PgCommit(i) ==
    /\ inv[i].pc = "commit"
    /\ \/ /\ inv[i].tx = "open"
          /\ inv' = [inv EXCEPT ![i].tx = "committed", ![i].result = "nil",
                                ![i].pc = "rollback"]
       \/ inv' = [inv EXCEPT ![i].tx = "closed", ![i].result = "error",
                             ![i].pc = "rollback"]
    /\ locks' = released(locks, i)
    /\ UNCHANGED pgVars

\* the function returns with its transaction left as it is
PgReturnNoRollback(i) ==
    /\ inv[i].pc = "rollback"
    /\ inv' = [inv EXCEPT ![i].pc = "returned"]
    /\ UNCHANGED <<locks, pgVars>>

\* part_004:168, the deferred tx.Rollback on the way out: nothing to do for a
\* transaction that is over; an open one is rolled back, or the rollback
\* fails and its connection is closed
PgDeferredRollback(i) ==
    /\ inv[i].pc = "rollback"
    /\ IF inv[i].tx # "open"
       THEN inv' = [inv EXCEPT ![i].pc = "returned"]
       ELSE \/ inv' = [inv EXCEPT ![i].tx = "rolledback", ![i].pc = "returned"]
            \/ inv' = [inv EXCEPT ![i].tx = "closed", ![i].pc = "returned"]
    /\ locks' = released(locks, i)
    /\ UNCHANGED pgVars

\* part_004:164-184: the session of an open transaction ends without the
\* invocation (the server terminates the backend, an idle-in-transaction
\* timeout, a broken connection); the server rolls the transaction back and
\* drops its locks, and the invocation finds out at its next statement
PgSessionLost(i) ==
    /\ inv[i].tx = "open"
    /\ inv[i].pc \in {"query", "fn", "running", "commit"}
    /\ inv' = [inv EXCEPT ![i].tx = "closed"]
    /\ locks' = released(locks, i)
    /\ UNCHANGED pgVars

\* the caller is done with this invocation; the function can be called again
PgDone(i) ==
    /\ inv[i].pc = "returned"
    /\ inv' = [inv EXCEPT ![i] = idleInvocation]
    /\ UNCHANGED <<locks, pgVars>>

RunWithPgLock ==
    \E i \in Invocations :
        \/ PgCall(i)
        \/ PgBegin(i)
        \/ PgTryLock(i)
        \/ PgFnStart(i)
        \/ PgFnReturn(i)
        \/ PgCommit(i)
        \/ PgDeferredRollback(i)
        \/ PgSessionLost(i)
        \/ PgDone(i)

PgLockSpec == Init /\ [][RunWithPgLock]_vars

(***************************************************************************)
(* Properties                                                              *)
(***************************************************************************)
IsJSONType(ct) == Len(ct) >= 1 /\ ct[1] = "application/json"

IsProtobufType(ct) == Len(ct) >= 1 /\ ct[1] = "application/x-protobuf"

\* the handler has passed its decoding step for a POST whose body was read
PastDecoding ==
    /\ pc \in {"decoded", "enforced", "exporting", "forwarded", "encoded", "responded"}
    /\ r.method = "POST"
    /\ r.body.k # "unreadable"

\* the body is JSON text for an object and the handler has normalized it
Normalized == PastDecoding /\ IsJSONType(r.contentType) /\ r.body.k = "json"
              /\ r.body.doc.t = "obj"

\* the generic tree as parsed, before the normalizer ran
parsedTree == jsonToAny(r.body.doc)

\* C1: for every request the upstream Export call is issued at most once, never
\* when the answer is 405, 415 or 400, and only for a POST whose content type is
\* supported and whose body is a JSON object or an intact protobuf message.
ExportAtMostOnce ==
    /\ exportCalls <= 1
    /\ Len(exported) = exportCalls
    /\ w.status \in {405, 415, 400} => exportCalls = 0
    /\ exportCalls > 0 =>
          /\ r.method = "POST"
          /\ \/ IsJSONType(r.contentType) /\ r.body.k = "json" /\ r.body.doc.t = "obj"
             \/ IsProtobufType(r.contentType) /\ r.body.k = "wire" /\ ~r.body.corrupt

ExportedOnceAndAnswered == pc = "responded" /\ exportCalls = 1 /\ w.status = 200

\* C2 (as claimed): a POST whose Content-Type is neither JSON nor protobuf is
\* answered 415 with no remote call, whatever its body, an unreadable one included.
UnsupportedTypeIs415 ==
    (pc = "responded" /\ r.method = "POST"
       /\ ~IsJSONType(r.contentType) /\ ~IsProtobufType(r.contentType))
    => (w.status = 415 /\ exportCalls = 0)

\* a body that cannot be decoded under its (supported) content type
Undecodable(rq) ==
    \/ /\ IsJSONType(rq.contentType)
       /\ \/ rq.body.k \in {"badjson", "wire"}
          \/ rq.body.k = "json" /\ rq.body.doc.t # "obj"
          \/ rq.body.k = "json" /\ rq.body.doc.t = "obj"
             /\ DOMAIN rq.body.doc.m \ {"resourceSpans"} # {}
    \/ /\ IsProtobufType(rq.contentType)
       /\ rq.body.k = "wire" /\ rq.body.corrupt

\* C3: a POST with a supported Content-Type whose body fails to decode never gets
\* past decoding, and once answered its status is 400 and no remote call was made.
MalformedBodyIs400 ==
    (r.method = "POST" /\ Undecodable(r)) =>
        /\ pc \in {"received", "methodChecked", "bodyRead", "responded"}
        /\ exportCalls = 0
        /\ pc = "responded" => w.status = 400

TruncatedJSONRejected ==
    /\ pc = "responded" /\ r.method = "POST" /\ IsJSONType(r.contentType)
    /\ r.body.k = "badjson" /\ w.status = 400 /\ exportCalls = 0

\* the collector's answers as the client must read them, in either encoding
expectedJSON(rs) ==
    IF rs = EmptyResponse THEN Obj(<<>>)
    ELSE [t |-> "obj",
          m |-> [partialSuccess |->
                   [t |-> "obj",
                    m |-> [rejectedSpans |-> [t |-> "str", s |-> <<"1">>],
                           errorMessage |-> [t |-> "str", s |-> rs.errorMessage]]]]]

expectedWire(rs) ==
    IF rs = EmptyResponse THEN <<>>
    ELSE << [num |-> 1, val |-> << [num |-> 1, val |-> [hi |-> 0, lo |-> 1]],
                                   [num |-> 2, val |-> rs.errorMessage] >>] >>

UpstreamErrorNotEchoed ==
    (pc = "responded" /\ exportErr # "") =>
        /\ w.status = 500
        /\ w.body = [k |-> "text", s |-> "Failed to forward traces"]
        /\ \E i \in DOMAIN logged : logged[i] = exportErr

PermissionDeniedHidden ==
    /\ pc = "responded" /\ exportErr = "PermissionDenied" /\ w.status = 500

RECURSIVE RewrittenEverywhere(_, _)
\* every hex string under a reserved key, at any depth of tree in, is its base64
\* text in tree out
RewrittenEverywhere(in, out) ==
    IF in.t = "obj" THEN
        /\ out.t = "obj" /\ DOMAIN out.m = DOMAIN in.m
        /\ \A k \in DOMAIN in.m :
              /\ (k \in {"traceId", "spanId", "parentSpanId"} /\ in.m[k].t = "str"
                    /\ hexDecodeString(in.m[k].s).ok)
                 => out.m[k] = Str(base64EncodeToString(hexDecodeString(in.m[k].s).bytes))
              /\ RewrittenEverywhere(in.m[k], out.m[k])
    ELSE IF in.t = "arr" THEN
        /\ out.t = "arr" /\ DOMAIN out.a = DOMAIN in.a
        /\ \A i \in DOMAIN in.a : RewrittenEverywhere(in.a[i], out.a[i])
    ELSE TRUE

RECURSIVE RewrittenOutsideReserved(_, _)
\* the same, for the reserved keys that are not inside the value of a reserved key
RewrittenOutsideReserved(in, out) ==
    IF in.t = "obj" THEN
        /\ out.t = "obj" /\ DOMAIN out.m = DOMAIN in.m
        /\ \A k \in DOMAIN in.m :
              IF k \in {"traceId", "spanId", "parentSpanId"}
              THEN (in.m[k].t = "str" /\ hexDecodeString(in.m[k].s).ok)
                   => out.m[k] = Str(base64EncodeToString(hexDecodeString(in.m[k].s).bytes))
              ELSE RewrittenOutsideReserved(in.m[k], out.m[k])
    ELSE IF in.t = "arr" THEN
        /\ out.t = "arr" /\ DOMAIN out.a = DOMAIN in.a
        /\ \A i \in DOMAIN in.a : RewrittenOutsideReserved(in.a[i], out.a[i])
    ELSE TRUE

\* C6 (as claimed): after the normalizer ran, every hex string under a reserved
\* key at any nesting depth is the base64 text of the same bytes.
AllHexIdsRewritten == Normalized => RewrittenEverywhere(parsedTree, genericPayload)

\* C6 (amended): after the normalizer ran, every hex string under a reserved key,
\* at any nesting depth that is not inside the value of another reserved key, is
\* the base64 text of the same bytes.
HexIdsRewrittenOutsideReserved ==
    Normalized => RewrittenOutsideReserved(parsedTree, genericPayload)

\* a span identifier three arrays and objects deep has been rewritten
DeepSpanIdRewritten ==
    /\ Normalized /\ pc = "decoded"
    /\ "resourceSpans" \in DOMAIN genericPayload.m
    /\ genericPayload.m["resourceSpans"].a[1].m["scopeSpans"].a[1].m["spans"].a[1].m["spanId"]
         = Str(<<"7","u","G","b","f","s","P","B","s","X","Q","=">>)
    /\ r.body.doc.m["resourceSpans"].a[1].m["scopeSpans"].a[1].m["spans"].a[1].m["spanId"]
         = Str(<<"E","E","E","1","9","B","7","E","C","3","C","1","B","1","7","4">>)

RECURSIVE ContainersUnderReservedNormalized(_, _)
\* wherever a reserved key holds an object or an array, the identifiers inside
\* that value are rewritten as well
ContainersUnderReservedNormalized(in, out) ==
    IF in.t = "obj" THEN
        /\ out.t = "obj" /\ DOMAIN out.m = DOMAIN in.m
        /\ \A k \in DOMAIN in.m :
              /\ (k \in {"traceId", "spanId", "parentSpanId"} /\ in.m[k].t \in {"obj", "arr"})
                 => RewrittenEverywhere(in.m[k], out.m[k])
              /\ ContainersUnderReservedNormalized(in.m[k], out.m[k])
    ELSE IF in.t = "arr" THEN
        /\ out.t = "arr" /\ DOMAIN out.a = DOMAIN in.a
        /\ \A i \in DOMAIN in.a : ContainersUnderReservedNormalized(in.a[i], out.a[i])
    ELSE TRUE

RECURSIVE DescendsExceptUnderReserved(_, _)
\* objects and arrays are entered under every other key and inside arrays, and
\* what a reserved key holds, when it is an object or an array, is as it was
DescendsExceptUnderReserved(in, out) ==
    IF in.t = "obj" THEN
        /\ out.t = "obj" /\ DOMAIN out.m = DOMAIN in.m
        /\ \A k \in DOMAIN in.m :
              IF k \in {"traceId", "spanId", "parentSpanId"}
              THEN /\ in.m[k].t \in {"obj", "arr"} => out.m[k] = in.m[k]
                   /\ (in.m[k].t = "str" /\ hexDecodeString(in.m[k].s).ok)
                      => out.m[k] # in.m[k] \/ in.m[k].s = <<>>
              ELSE DescendsExceptUnderReserved(in.m[k], out.m[k])
    ELSE IF in.t = "arr" THEN
        /\ out.t = "arr" /\ DOMAIN out.a = DOMAIN in.a
        /\ \A i \in DOMAIN in.a : DescendsExceptUnderReserved(in.a[i], out.a[i])
    ELSE TRUE

\* C7 (as claimed): the traversal enters every object and array whatever the key,
\* so a hex identifier inside an object or array held by a reserved key is
\* rewritten too.
TraversalUnconditional ==
    Normalized => ContainersUnderReservedNormalized(parsedTree, genericPayload)

\* C7 (amended): the traversal enters every object and array except one that is
\* itself the value of a key named traceId, spanId or parentSpanId: that value is
\* not entered, and a hex identifier inside it stays as it was.
TraversalSkipsReservedValues ==
    Normalized => DescendsExceptUnderReserved(parsedTree, genericPayload)

\* {"traceId": {"spanId": "5B8E"}} has been through the normalizer unchanged
NestedUnderReservedUnchanged ==
    /\ Normalized
    /\ r.body.doc = [t |-> "obj",
                     m |-> [traceId |-> [t |-> "obj",
                                         m |-> [spanId |-> Str(<<"5","B","8","E">>)]]]]
    /\ genericPayload = r.body.doc

RECURSIVE OnlyReservedHexChanged(_, _)
\* tree out differs from tree in at most in hex strings held by reserved keys
OnlyReservedHexChanged(in, out) ==
    IF in.t = "obj" THEN
        /\ out.t = "obj" /\ DOMAIN out.m = DOMAIN in.m
        /\ \A k \in DOMAIN in.m :
              IF k \in {"traceId", "spanId", "parentSpanId"}
              THEN \/ out.m[k] = in.m[k]
                   \/ in.m[k].t = "str" /\ hexDecodeString(in.m[k].s).ok
              ELSE OnlyReservedHexChanged(in.m[k], out.m[k])
    ELSE IF in.t = "arr" THEN
        /\ out.t = "arr" /\ DOMAIN out.a = DOMAIN in.a
        /\ \A i \in DOMAIN in.a : OnlyReservedHexChanged(in.a[i], out.a[i])
    ELSE out = in

\* C8: the normalizer changes nothing but hex-decodable strings under the three
\* reserved keys: any other value under a reserved key, and every string under
\* another key or in an array, is as it was.
NormalizerFrame == Normalized => OnlyReservedHexChanged(parsedTree, genericPayload)

\* beside a rewritten traceId, a hex-shaped name and an array held by spanId
\* came through unchanged
NonHexIdsAndOtherKeysUntouched ==
    /\ Normalized
    /\ "spans" \in DOMAIN genericPayload.m
    /\ genericPayload.m["spans"].t = "obj"
    /\ DOMAIN genericPayload.m["spans"].m = {"traceId", "name", "spanId"}
    /\ genericPayload.m["spans"].m["name"] = Str(<<"5","B","8","E">>)
    /\ genericPayload.m["spans"].m["spanId"] = Arr(<< Str(<<"f","f">>) >>)
    /\ genericPayload.m["spans"].m["traceId"] = Str(<<"W","4","4","=">>)

\* the trace identifier of the one span of a decoded request
traceIdOf(rq) == rq.resourceSpans[1].scopeSpans[1].spans[1].traceId

\* C9: a JSON request that gives a 16-byte trace identifier as upper-case hex and
\* one that gives it as padded base64 both decode to that identifier's bytes, and
\* the base64 text reaches the schema decoder as it was sent.
HexAndBase64SameTraceId ==
    (pc = "decoded" /\ IsJSONType(r.contentType) /\ r.body.k = "json") =>
        \A L \in Logical, nums \in NumStyles :
            /\ r.body.doc = jsonOfRequest(L, "HEX", nums)
               => Len(traceIdOf(req)) = 16 /\ traceIdOf(req) = traceIdOf(L)
            /\ r.body.doc = jsonOfRequest(L, "base64", nums)
               => /\ Len(traceIdOf(req)) = 16 /\ traceIdOf(req) = traceIdOf(L)
                  /\ genericPayload = parsedTree

UpperHexTraceIdDecoded ==
    /\ pc = "decoded" /\ IsJSONType(r.contentType) /\ r.body.k = "json"
    /\ \E L \in Logical : r.body.doc = jsonOfRequest(L, "HEX", "quoted")
    /\ traceIdOf(req) = <<255, 142, 255, 247, 152, 3, 129, 3, 210, 105, 182, 51, 129, 63, 198, 12>>

\* C10 (as claimed): a logical request sent as JSON with hex identifiers decodes
\* to the same request as its binary protobuf form.
JSONDecodesLikeProtobuf ==
    (pc = "decoded" /\ IsJSONType(r.contentType) /\ r.body.k = "json") =>
        \A L \in Logical, ids \in {"HEX", "hex"}, nums \in NumStyles :
            r.body.doc = jsonOfRequest(L, ids, nums)
            => req = protoUnmarshal([k |-> "wire", corrupt |-> FALSE,
                                     fields |-> wireOfRequest(L)]).v

(***************************************************************************)
(* The Attribute Enforcer's properties                                     *)
(***************************************************************************)
\* overrideResourceAttributes has run for the request at hand
PastEnforcing ==
    \/ pc \in {"enforced", "exporting", "forwarded", "encoded"}
    \/ pc = "responded" /\ exportCalls = 1

\* the request as the decoder produced it, before the enforcer ran
beforeEnforcing == decodeBody(r.contentType, body).req

overrideKeys == { attributes[j].key : j \in DOMAIN attributes }

\* C11 (as claimed): after the enforcer ran, in every resource span that has a
\* resource the attribute keys are unique and every override key is there
\* exactly once, with the override's value.
EnforcedKeysUnique ==
    PastEnforcing =>
        \A i \in DOMAIN req.resourceSpans :
            ~req.resourceSpans[i].resource.nil =>
                \E a \in {req.resourceSpans[i].resource.attributes} :
                    /\ \A x, y \in DOMAIN a : a[x].key = a[y].key => x = y
                    /\ \A j \in DOMAIN attributes :
                          /\ Cardinality({x \in DOMAIN a : a[x].key = attributes[j].key}) = 1
                          /\ \A x \in DOMAIN a : a[x].key = attributes[j].key
                                                  => a[x].value = attributes[j].value

\* attribute sequence after is sequence before with the upserts applied in
\* place, followed by the upserts whose key before did not have
FrameOf(before, after) ==
    /\ Len(after) >= Len(before)
    /\ \A x \in DOMAIN before :
          /\ after[x].key = before[x].key
          /\ before[x].key \notin overrideKeys => after[x] = before[x]
          /\ \A j \in DOMAIN attributes :
                before[x].key = attributes[j].key => after[x].value = attributes[j].value
    /\ \E missing \in {SelectSeq(attributes,
                            LAMBDA kv : \A x \in DOMAIN before : before[x].key # kv.key)} :
          SubSeq(after, Len(before) + 1, Len(after)) = missing

\* C12: the enforcer keeps every attribute whose key is no override key as it
\* was, keeps all attributes that were there at their positions (an overridden
\* one gets the override's value in place), and appends the override keys that
\* were missing after them, in the overrides' order.
EnforcerFrame ==
    PastEnforcing =>
        \E before \in {beforeEnforcing} :
            /\ DOMAIN req.resourceSpans = DOMAIN before.resourceSpans
            /\ \A i \in DOMAIN req.resourceSpans :
                  /\ req.resourceSpans[i].scopeSpans = before.resourceSpans[i].scopeSpans
                  /\ ~before.resourceSpans[i].resource.nil =>
                        /\ ~req.resourceSpans[i].resource.nil
                        /\ FrameOf(before.resourceSpans[i].resource.attributes,
                                   req.resourceSpans[i].resource.attributes)

\* host=app, service.name=app went in: host is as it was, service.name was
\* overridden in place, the four missing override keys follow
ReplacedInPlaceAndAppended ==
    /\ pc = "enforced" /\ r.body.k = "wire" /\ Len(req.resourceSpans) = 1
    /\ ~req.resourceSpans[1].resource.nil
    /\ Len(req.resourceSpans[1].resource.attributes) = 6
    /\ req.resourceSpans[1].resource.attributes[1] = [key |-> <<"h","o","s","t">>, value |-> <<"a","p","p">>]
    /\ req.resourceSpans[1].resource.attributes[2] = attributes[4]
    /\ beforeEnforcing.resourceSpans[1].resource.attributes[2].value = <<"a","p","p">>
    /\ req.resourceSpans[1].resource.attributes[6] = attributes[5]

\* C13: a resource span that has no resource is the same after the enforcer as
\* before it, still without a resource, and the request is forwarded with it.
AbsentResourceUntouched ==
    PastEnforcing =>
        \E before \in {beforeEnforcing} :
            \A i \in DOMAIN before.resourceSpans :
                before.resourceSpans[i].resource.nil =>
                    /\ i \in DOMAIN req.resourceSpans
                    /\ req.resourceSpans[i] = before.resourceSpans[i]
                    /\ pc # "enforced" =>
                          /\ exportCalls = 1
                          /\ exported[1].resourceSpans[i] = before.resourceSpans[i]

MixedRequestForwarded ==
    /\ pc = "exporting" /\ Len(req.resourceSpans) = 2
    /\ req.resourceSpans[1].resource.nil
    /\ ~req.resourceSpans[2].resource.nil
    /\ Len(req.resourceSpans[2].resource.attributes) = 5
    /\ exported = <<req>>

(***************************************************************************)
(* The handler's control flow                                              *)
(***************************************************************************)
\* the steps a request can take from one stage to the next
StageEdges ==
    { <<"idle", "received">>,
      <<"received", "methodChecked">>, <<"received", "responded">>,
      <<"methodChecked", "bodyRead">>, <<"methodChecked", "responded">>,
      <<"bodyRead", "decoded">>, <<"bodyRead", "responded">>,
      <<"decoded", "enforced">>,
      <<"enforced", "exporting">>,
      <<"exporting", "forwarded">>, <<"exporting", "responded">>,
      <<"forwarded", "encoded">>, <<"forwarded", "responded">>,
      <<"encoded", "responded">>,
      <<"responded", "idle">> }

\* one step as C17 allows it: the handler moves along an edge, or it is not
\* the handler that moves (the request's context is cancelled)
OrderedStep ==
    \/ /\ pc' = pc /\ w' = w
    \/ /\ <<pc, pc'>> \in StageEdges
       /\ pc' = "responded" => (w.status = 0 /\ w'.status # 0)
       /\ pc' \notin {"responded", "idle"} => (w' = w /\ w.status = 0)
       /\ w'.status >= 400 => pc' = "responded"
       /\ pc = "responded" => pc' = "idle"

\* C17: a request moves through received, decoded, enforced, forwarded, encoded,
\* responded in that order and never back; a step that writes an error status
\* ends the request, and a status is written exactly once, on the step that
\* ends the request.
StagesInOrder == [][OrderedStep]_vars

AnsweredAfterAllStages ==
    /\ pc = "responded" /\ w.status = 200 /\ IsJSONType(r.contentType)
    /\ Len(logged) = 1 /\ respBody = w.body /\ resp = PartialResponse

\* C20: a request whose method is not POST is answered 405 by the handler's
\* first step, whatever its Content-Type and body: the body is not read,
\* nothing is decoded and no remote call is made.
NonPostIs405 ==
    (pc # "idle" /\ r.method # "POST") =>
        /\ pc \in {"received", "responded"}
        /\ pc = "responded" =>
              /\ w.status = 405
              /\ w.body = [k |-> "text", s |-> "Method not allowed"]
        /\ body = NoBody /\ genericPayload = Null /\ req = EmptyRequest
        /\ exportCalls = 0 /\ exported = <<>> /\ logged = <<>>

GetWithUnreadableBodyIs405 ==
    /\ pc = "responded" /\ r.method = "GET" /\ r.body.k = "unreadable"
    /\ IsJSONType(r.contentType) /\ w.status = 405 /\ exportCalls = 0

(***************************************************************************)
(* The end-to-end example                                                  *)
(***************************************************************************)
\* the example request with the given text as its traceId has been answered
\* after the collector accepted it
ExampleAnswered(traceIdText) ==
    /\ pc = "responded" /\ r.method = "POST" /\ IsJSONType(r.contentType)
    /\ r.body = [k |-> "json", doc |-> exampleDoc(traceIdText)]
    /\ exportErr = ""

EndToEnd(traceIdText) ==
    /\ hexDecodeString(traceIdText).ok
    /\ exportCalls = 1
    /\ traceIdOf(exported[1]) = hexDecodeString(traceIdText).bytes
    /\ exported[1].resourceSpans[1].scopeSpans[1].spans[1].spanId = exampleSpanId
    /\ ~exported[1].resourceSpans[1].resource.nil
    /\ \A j \in DOMAIN attributes :
          \E x \in DOMAIN exported[1].resourceSpans[1].resource.attributes :
              exported[1].resourceSpans[1].resource.attributes[x] = attributes[j]
    /\ w.status = 200 /\ w.contentType = "application/json"

CancelAbortsExport ==
    /\ [](pc = "exporting" => exportCtx = "r.Context()")
    /\ (pc = "exporting" /\ ctxDone) ~> (pc = "responded")

CanceledExportAnswered ==
    /\ pc = "responded" /\ ctxDone /\ exportErr = "Canceled"
    /\ exportCalls = 1 /\ w.status = 500

(***************************************************************************)
(* Construction                                                            *)
(***************************************************************************)
\* C14: when the endpoint, the user or the password is empty, NewOtelTraceProxy
\* returns an error and no handler, and it gets there without building dial
\* options or a connection.
EmptyArgFailsConstruction ==
    (config.endpoint = "" \/ config.user = "" \/ config.pass = "") =>
        /\ newpc \in {"start", "returned"}
        /\ conn = NoConn /\ opts = <<>> /\ attributes = <<>>
        /\ newpc = "returned" =>
              /\ ret.returned /\ ~ret.handler
              /\ ret.err \in {"otel trace endpoint is required",
                               "otel trace user is required",
                               "otel trace password is required"}

EmptyPasswordRejected ==
    /\ newpc = "returned" /\ config.endpoint # "" /\ config.user # ""
    /\ config.pass = "" /\ ~ret.handler
    /\ ret.err = "otel trace password is required" /\ conn = NoConn

\* C15: the connection is without TLS only if the Stage found at construction is
\* the local stage; under every other Stage, a known one or not, it is dialled
\* with TLS transport credentials.
InsecureOnlyWhenLocal ==
    /\ opts # <<>> =>
          /\ opts[1].option = "WithTransportCredentials"
          /\ opts[1].creds = "insecure" => config.Stage = StageLocal
          /\ config.Stage # StageLocal => opts[1].creds = "tls"
    /\ ~conn.nil =>
          /\ conn.transport = "insecure" => config.Stage = StageLocal
          /\ config.Stage # StageLocal => conn.transport = "tls"

UnknownStageDialsTLS ==
    /\ newpc = "returned" /\ ret.handler
    /\ config.Stage = <<"s","t","a","g","i","n","g">>
    /\ ~conn.nil /\ conn.transport = "tls"

(***************************************************************************)
(* Independence of requests handled side by side                           *)
(***************************************************************************)
\* what a request handled on its own forwards
alonePayload(rq) == overrideResourceAttributes(receive(rq).req, proxyAttributes)

\* what a request handled on its own is answered, given the collector's part
aloneAnswer(rq, rs, err) ==
    IF ~receive(rq).ok THEN receive(rq).w
    ELSE IF err # "" THEN forwardFailure(err)
    ELSE [status |-> StatusOK,
          contentType |-> encodeResponse(rq.contentType, rs).contentType,
          body |-> encodeResponse(rq.contentType, rs).body]

\* C18: however the steps of requests handled side by side interleave, each
\* request forwards the payload and gets the answer it would forward and get
\* on its own, whatever became of the others, and the override attribute set
\* is as construction left it.
HandlersIndependent ==
    /\ attributes = proxyAttributes
    /\ \A i \in Handlers :
          /\ h[i].exported # <<>> =>
                /\ receive(h[i].r).ok
                /\ h[i].exported = <<alonePayload(h[i].r)>>
          /\ h[i].pc = "responded" =>
                h[i].w = aloneAnswer(h[i].r, h[i].resp, h[i].exportErr)
          /\ (h[i].pc = "responded" /\ ~receive(h[i].r).ok) => h[i].exported = <<>>

OneRejectedOtherForwarded ==
    /\ h[1].pc = "responded" /\ h[1].w.status = 400
    /\ h[2].pc = "responded" /\ h[2].w.status = 200
    /\ IsProtobufType(h[2].r.contentType)
    /\ Len(h[2].exported[1].resourceSpans[1].resource.attributes) = 5
    /\ h[2].exported[1].resourceSpans[1].resource.attributes[1] = proxyAttributes[4]

(***************************************************************************)
(* The OpenAPI document's answer                                           *)
(***************************************************************************)
\* C22 (as claimed): the Content-Type text/html; charset=utf-8 is among the
\* headers taken with status 200, and the answer that is sent carries it.
SpecSentAsHTML ==
    oa.pc = "written" =>
        /\ oa.sent.status = 200
        /\ oa.committedHeader = "text/html; charset=utf-8"
        /\ oa.sent.contentType = "text/html; charset=utf-8"

(***************************************************************************)
(* RunWithPgLock                                                           *)
(***************************************************************************)
\* C21: of the invocations made for one lock name at most one is inside the
\* provided function at any time, and an invocation that was told the lock
\* is taken returns nil without having entered the function.
PgLockMutualExclusion ==
    /\ \A i, j \in Invocations :
          (inv[i].pc = "running" /\ inv[j].pc = "running"
              /\ lockID(inv[i].name) = lockID(inv[j].name)) => i = j
    /\ \A i \in Invocations :
          (inv[i].pc \in {"rollback", "returned"} /\ inv[i].tx # "none"
                /\ ~inv[i].acquired /\ inv[i].result # "error")
             => (inv[i].result = "nil" /\ inv[i].ran = 0)

====
